---- MODULE Spec2Model ----
(***************************************************************************)
(* Co-founder matching backend: the profile similarity engine              *)
(* (controllers/suggestionController.js), the two-stage CV-to-job matcher  *)
(* (controllers/cvController.js with services/aiRerankService.js) and the  *)
(* connection workflow (controllers/connectionController.js).              *)
(*                                                                         *)
(* Conventions.                                                            *)
(*  - A JavaScript string is a sequence of one-character strings, so that  *)
(*    toLowerCase, trim, includes, split and the regular expressions are   *)
(*    computed and not assumed.                                            *)
(*  - A JavaScript number that the code computes by division is an exact   *)
(*    fraction <<n, d>> in lowest terms with d > 0 (ideal arithmetic: the  *)
(*    rounding of IEEE doubles is not modelled).                           *)
(*  - A literal such as 0.25 or 0.15 is kept in hundredths (25, 15).       *)
(*  - An absent array, map, count or string of a profile document is the   *)
(*    empty array, empty map, 0 or empty string: the code reads every such *)
(*    field through `x || []`, `x || {}`, `!x`.                            *)
(***************************************************************************)
EXTENDS Integers, Sequences, FiniteSets, TLC

VARIABLES
    savedProfiles,   \* saved_profiles table: user id -> row
    connections,     \* connections table: set of rows
    potentialMatches,\* getSuggestions: the user ids of the candidate rows, in query order
    response,        \* the response getSuggestions sent last
    suggestionsRequest, \* getSuggestions: the store read that rejected, the responses sent
    userCvs,         \* user_cvs table: user id -> row
    jobs,            \* jobs table: set of rows
    cvRequest,       \* getMatchesForUser: where the handler is, and its locals
    groqCalls,       \* the completions the current request asked the LLM for
    jobQueries,      \* the stage-1 queries the current request sent
    cvResponse,      \* the response getMatchesForUser sent to the current request
    sendCalls,       \* sendRequest: the calls in flight, each between its two awaits
    nextConnectionId,\* connections.id SERIAL: the id the next INSERT takes
    connResponse,    \* the response a connection handler sent last
    primitiveCall,   \* a similarity primitive and the arguments it was called with
    primitiveResult, \* what that call returned
    generationCounts,\* profile_generations table: user id -> generation_count
    generateCalls,   \* generateProfile: the call of each user, at its await of the profile
    genResponse      \* the response a profile handler sent last

cvVars == <<userCvs, jobs, cvRequest, groqCalls, jobQueries, cvResponse>>

connVars == <<sendCalls, nextConnectionId, connResponse>>

primVars == <<primitiveCall, primitiveResult>>

genVars == <<generationCounts, generateCalls, genResponse>>

(***************************************************************************)
(* Exact arithmetic                                                        *)
(***************************************************************************)
RECURSIVE GCD(_, _)
GCD(a, b) == IF b = 0 THEN a ELSE GCD(b, a % b)

LCM(a, b) == (a * b) \div GCD(a, b)

Abs(x) == IF x < 0 THEN -x ELSE x

Min(a, b) == IF a <= b THEN a ELSE b

Max(a, b) == IF a >= b THEN a ELSE b

\* the fraction n/d (d > 0) in lowest terms
Frac(n, d) ==
    IF n = 0 THEN <<0, 1>> ELSE <<n \div GCD(Abs(n), d), d \div GCD(Abs(n), d)>>

FLeq(f, g) == f[1] * g[2] <= g[1] * f[2]

FLess(f, g) == f[1] * g[2] < g[1] * f[2]

Zero == <<0, 1>>

One == <<1, 1>>

Half == <<1, 2>>

(***************************************************************************)
(* JavaScript strings as sequences of characters                           *)
(***************************************************************************)
UpperChars ==
    <<"A","B","C","D","E","F","G","H","I","J","K","L","M",
      "N","O","P","Q","R","S","T","U","V","W","X","Y","Z">>

LowerChars ==
    <<"a","b","c","d","e","f","g","h","i","j","k","l","m",
      "n","o","p","q","r","s","t","u","v","w","x","y","z">>

Digits == {"0","1","2","3","4","5","6","7","8","9"}

Range(f) == {f[i] : i \in DOMAIN f}

LowerChar(c) ==
    IF \E i \in DOMAIN UpperChars : UpperChars[i] = c
    THEN LowerChars[CHOOSE i \in DOMAIN UpperChars : UpperChars[i] = c]
    ELSE c

\* String.prototype.toLowerCase
toLowerCase(s) == [i \in 1..Len(s) |-> LowerChar(s[i])]

\* \s of the regular expressions, and the characters trim() strips
IsSpace(c) == c \in {" ", "\t", "\n", "\r"}

\* \w of the regular expressions
IsWordChar(c) == c \in Range(UpperChars) \cup Range(LowerChars) \cup Digits \cup {"_"}

RECURSIVE trimStart(_)
trimStart(s) == IF Len(s) > 0 /\ IsSpace(s[1]) THEN trimStart(Tail(s)) ELSE s

RECURSIVE trimEnd(_)
trimEnd(s) ==
    IF Len(s) > 0 /\ IsSpace(s[Len(s)]) THEN trimEnd(SubSeq(s, 1, Len(s) - 1)) ELSE s

\* String.prototype.trim
trim(s) == trimEnd(trimStart(s))

\* String.prototype.includes
includes(s, key) ==
    \E i \in 0..(Len(s) - Len(key)) : SubSeq(s, i + 1, i + Len(key)) = key

\* Array.prototype.join
RECURSIVE join(_, _)
join(arr, sep) ==
    IF Len(arr) = 0 THEN <<>>
    ELSE IF Len(arr) = 1 THEN arr[1]
    ELSE arr[1] \o sep \o join(Tail(arr), sep)

\* Array.prototype.filter, by a set of admitted values
RECURSIVE filterIn(_, _)
filterIn(arr, keep) ==
    IF Len(arr) = 0 THEN <<>>
    ELSE IF arr[1] \in keep THEN <<arr[1]>> \o filterIn(Tail(arr), keep)
    ELSE filterIn(Tail(arr), keep)

\* Array.prototype.slice(0, n)
slice0(arr, n) == SubSeq(arr, 1, Min(n, Len(arr)))

\* [...new Set(arr)]: the first occurrence of each value, in order
appendIfNew(front, last) == IF last \in Range(front) THEN front ELSE Append(front, last)

RECURSIVE unique(_)
unique(arr) ==
    IF Len(arr) = 0 THEN <<>>
    ELSE appendIfNew(unique(SubSeq(arr, 1, Len(arr) - 1)), arr[Len(arr)])

\* String.prototype.split(/\s+/): i is the next position, cur the token so far
RECURSIVE splitFrom(_, _, _)
splitFrom(s, i, cur) ==
    IF i > Len(s) THEN <<cur>>
    ELSE IF IsSpace(s[i])
         THEN IF i < Len(s) /\ IsSpace(s[i + 1])
              THEN splitFrom(s, i + 1, cur)
              ELSE <<cur>> \o splitFrom(s, i + 1, <<>>)
         ELSE splitFrom(s, i + 1, Append(cur, s[i]))

splitWhitespace(s) == splitFrom(s, 1, <<>>)

\* String.prototype.match(/\b\w+\b/g) || []: the maximal runs of word characters
RECURSIVE matchFrom(_, _, _)
matchFrom(s, i, cur) ==
    IF i > Len(s) THEN (IF Len(cur) > 0 THEN <<cur>> ELSE <<>>)
    ELSE IF IsWordChar(s[i]) THEN matchFrom(s, i + 1, Append(cur, s[i]))
    ELSE (IF Len(cur) > 0 THEN <<cur>> ELSE <<>>) \o matchFrom(s, i + 1, <<>>)

matchWords(s) == matchFrom(s, 1, <<>>)

RECURSIVE SumOver(_, _)
SumOver(S, f) ==
    IF S = {} THEN 0
    ELSE f[CHOOSE y \in S : TRUE] + SumOver(S \ {CHOOSE y \in S : TRUE}, f)

(***************************************************************************)
(* Similarity primitives (suggestionController.js)                         *)
(***************************************************************************)
\* as normalizedSet, without toLowerCase
normalizedSetCaseSensitive(arr) == {trim(arr[i]) : i \in DOMAIN arr}

normalizedSet(arr) == {trim(toLowerCase(arr[i])) : i \in DOMAIN arr}

\* as sizeRatio, over the size of the first Set
sizeRatioOverFirst(set1, set2) ==
    IF Cardinality(set1) = 0 THEN Zero
    ELSE Frac(Cardinality({x \in set1 : x \in set2}), Cardinality(set1))

\* intersection.size / union.size of the two Sets
sizeRatio(set1, set2) ==
    IF Cardinality(set1 \cup set2) = 0 THEN Zero
    ELSE Frac(Cardinality({x \in set1 : x \in set2}), Cardinality(set1 \cup set2))

calculateJaccardIndex(arr1, arr2) ==
    IF Len(arr1) = 0 \/ Len(arr2) = 0 THEN Zero
    ELSE sizeRatio(normalizedSet(arr1), normalizedSet(arr2))

\* stats[lang] || 0, parsed
percentOf(stats, lang) == IF lang \in DOMAIN stats THEN stats[lang] ELSE 0

\* as differenceRatio, without the `1 -`
differenceShare(totalDifference, maxPossibleDifference) ==
    IF maxPossibleDifference = 0 THEN Zero
    ELSE Frac(totalDifference, maxPossibleDifference * 2)

\* 1 - (totalDifference / (maxPossibleDifference * 2))
differenceRatio(totalDifference, maxPossibleDifference) ==
    IF maxPossibleDifference = 0 THEN Zero
    ELSE Frac(maxPossibleDifference * 2 - totalDifference, maxPossibleDifference * 2)

calculateLanguageStatsSimilarity(stats1, stats2) ==
    differenceRatio(
        SumOver(DOMAIN stats1 \cup DOMAIN stats2,
                [l \in DOMAIN stats1 \cup DOMAIN stats2 |->
                    Abs(percentOf(stats1, l) - percentOf(stats2, l))]),
        SumOver(DOMAIN stats1 \cup DOMAIN stats2,
                [l \in DOMAIN stats1 \cup DOMAIN stats2 |->
                    Max(percentOf(stats1, l), percentOf(stats2, l))]))

\* the experienceLevels object, in its insertion order
experienceLevels ==
    << <<<<"j","u","n","i","o","r">>, 1>>,
       <<<<"e","n","t","r","y">>, 1>>,
       <<<<"m","i","d">>, 2>>,
       <<<<"i","n","t","e","r","m","e","d","i","a","t","e">>, 2>>,
       <<<<"s","e","n","i","o","r">>, 3>>,
       <<<<"l","e","a","d">>, 4>>,
       <<<<"p","r","i","n","c","i","p","a","l">>, 4>>,
       <<<<"s","t","a","f","f">>, 4>>,
       <<<<"e","x","p","e","r","t">>, 5>>,
       <<<<"n","/","a">>, 0>> >>

\* the level of the first key, in insertion order, among those found
firstLevel(hits) ==
    IF hits = {} THEN 0
    ELSE experienceLevels[CHOOSE i \in hits : \A j \in hits : i <= j][2]

getExperienceLevel(exp) ==
    IF Len(exp) = 0 THEN 0
    ELSE firstLevel({i \in DOMAIN experienceLevels :
                        includes(toLowerCase(exp), experienceLevels[i][1])})

maxDifference == 4

\* as levelSimilarity, with an unknown level scored as any other
levelSimilarityWithoutNeutral(level1, level2) ==
    Frac(maxDifference - Min(Abs(level1 - level2), maxDifference), maxDifference)

levelSimilarity(level1, level2) ==
    IF level1 = 0 \/ level2 = 0 THEN Half
    ELSE Frac(maxDifference - Abs(level1 - level2), maxDifference)

calculateExperienceLevelSimilarity(exp1, exp2) ==
    levelSimilarity(getExperienceLevel(exp1), getExperienceLevel(exp2))

calculateRepoActivitySimilarity(repoCount1, repoCount2) ==
    IF repoCount1 = 0 \/ repoCount2 = 0 THEN Zero
    ELSE IF Max(repoCount1, repoCount2) = 0 THEN One
    ELSE Frac(Min(repoCount1, repoCount2), Max(repoCount1, repoCount2))

commonWords ==
    { <<"t","h","e">>, <<"a">>, <<"a","n">>, <<"a","n","d">>, <<"o","r">>,
      <<"b","u","t">>, <<"i","n">>, <<"o","n">>, <<"a","t">>, <<"t","o">>,
      <<"f","o","r">>, <<"o","f">>, <<"w","i","t","h">>, <<"b","y">>,
      <<"i","s">>, <<"a","r","e">>, <<"w","a","s">>, <<"w","e","r","e">>,
      <<"b","e">>, <<"b","e","e","n">>, <<"h","a","v","e">>, <<"h","a","s">>,
      <<"h","a","d">>, <<"d","o">>, <<"d","o","e","s">>, <<"d","i","d">>,
      <<"w","i","l","l">>, <<"w","o","u","l","d">>, <<"c","o","u","l","d">>,
      <<"s","h","o","u","l","d">>, <<"t","h","i","s">>, <<"t","h","a","t">>,
      <<"t","h","e","s","e">>, <<"t","h","o","s","e">> }

MaxKeywords == 50

\* text.replace(/[^\w\s]/g, ' ')
stripPunctuation(s) ==
    [i \in 1..Len(s) |-> IF IsWordChar(s[i]) \/ IsSpace(s[i]) THEN s[i] ELSE " "]

keepKeywords(words) ==
    slice0(filterIn(words, {w \in Range(words) : Len(w) > 2 /\ w \notin commonWords}),
           MaxKeywords)

getKeywords(text) == keepKeywords(splitWhitespace(stripPunctuation(toLowerCase(text))))

calculateTextSimilarity(text1, text2) ==
    IF Len(text1) = 0 \/ Len(text2) = 0 THEN Zero
    ELSE calculateJaccardIndex(getKeywords(text1), getKeywords(text2))

(***************************************************************************)
(* The primitives called on their own                                      *)
(***************************************************************************)
MaxLabels == 2

\* "Go", "go " , " JS" and "Rust"
Labels ==
    { <<"G","o">>, <<"g","o"," ">>, <<" ","J","S">>, <<"R","u","s","t">> }

\* the arrays of at most MaxLabels labels; the empty one stands for a missing
\* array too (`!arr1 || arr1.length === 0`)
LabelArrays == UNION {[1..n -> Labels] : n \in 0..MaxLabels}

Languages == {"JavaScript", "Go", "Python"}

Percentages == {0, 40, 60, 100}

\* the languageStats objects: some languages, each with a percentage
StatsObjects == UNION {[S -> Percentages] : S \in SUBSET Languages}

MaxRepoCount == 3

\* the repoCount values; 0 stands for a missing count too (`!repoCount1`)
RepoCounts == 0..MaxRepoCount

\* the estimatedExperience descriptors: "Junior", "Entry-level", "Mid-level",
\* "Intermediate", "Senior", "Senior Lead", "Principal", "Staff", "Expert",
\* "N/A", "Unknown"; the empty one stands for a missing descriptor too
Experiences ==
    { <<"J","u","n","i","o","r">>,
      <<"E","n","t","r","y","-","l","e","v","e","l">>,
      <<"M","i","d","-","l","e","v","e","l">>,
      <<"I","n","t","e","r","m","e","d","i","a","t","e">>,
      <<"S","e","n","i","o","r">>,
      <<"S","e","n","i","o","r"," ","L","e","a","d">>,
      <<"P","r","i","n","c","i","p","a","l">>,
      <<"S","t","a","f","f">>,
      <<"E","x","p","e","r","t">>,
      <<"N","/","A">>,
      <<"U","n","k","n","o","w","n">>,
      <<>> }

NoPrimitiveCall == [fn |-> "none", arg1 |-> <<>>, arg2 |-> <<>>]

\* no number: the call has not returned
NotReturned == <<0, 0>>

PrimIdle == primitiveCall = NoPrimitiveCall /\ primitiveResult = NotReturned

CallJaccardIndex ==
    /\ primitiveCall.fn = "calculateJaccardIndex"
    /\ primitiveResult = NotReturned
    /\ primitiveResult' = calculateJaccardIndex(primitiveCall.arg1, primitiveCall.arg2)
    /\ UNCHANGED primitiveCall

CallLanguageStatsSimilarity ==
    /\ primitiveCall.fn = "calculateLanguageStatsSimilarity"
    /\ primitiveResult = NotReturned
    /\ primitiveResult' =
          calculateLanguageStatsSimilarity(primitiveCall.arg1, primitiveCall.arg2)
    /\ UNCHANGED primitiveCall

CallExperienceLevelSimilarity ==
    /\ primitiveCall.fn = "calculateExperienceLevelSimilarity"
    /\ primitiveResult = NotReturned
    /\ primitiveResult' =
          calculateExperienceLevelSimilarity(primitiveCall.arg1, primitiveCall.arg2)
    /\ UNCHANGED primitiveCall

CallRepoActivitySimilarity ==
    /\ primitiveCall.fn = "calculateRepoActivitySimilarity"
    /\ primitiveResult = NotReturned
    /\ primitiveResult' =
          calculateRepoActivitySimilarity(primitiveCall.arg1, primitiveCall.arg2)
    /\ UNCHANGED primitiveCall

(***************************************************************************)
(* calculateDetailedMatchScore                                             *)
(***************************************************************************)
\* the weights, in hundredths: `totalWeight += w` and `scores.x * w`
technicalSkillsWeight == 25

technologyStackWeight == 20

programmingLanguagesWeight == 15

roleCompatibilityWeight == 15

architecturalConceptsWeight == 10

experienceLevelWeight == 10

repositoryActivityWeight == 3

projectInsightsWeight == 2

\* sum of w[i] * f[i] over i, as one fraction
RECURSIVE LcmOfDenominators(_)
LcmOfDenominators(fs) ==
    IF Len(fs) = 0 THEN 1 ELSE LCM(fs[1][2], LcmOfDenominators(Tail(fs)))

RECURSIVE WeightedNumerator(_, _, _)
WeightedNumerator(ws, fs, l) ==
    IF Len(fs) = 0 THEN 0
    ELSE ws[1] * fs[1][1] * (l \div fs[1][2]) + WeightedNumerator(Tail(ws), Tail(fs), l)

WeightedOver(ws, fs, l) == Frac(WeightedNumerator(ws, fs, l), l)

WeightedSum(ws, fs) == WeightedOver(ws, fs, LcmOfDenominators(fs))

FDiv(f, k) == Frac(f[1], f[2] * k)

\* Math.max(0, Math.min(1, x))
clamp01(f) == IF FLess(f, Zero) THEN Zero ELSE IF FLess(One, f) THEN One ELSE f

\* as factorWeights, with the digits of the first weight transposed
factorWeightsTransposed ==
    << 52, technologyStackWeight, programmingLanguagesWeight,
       roleCompatibilityWeight, architecturalConceptsWeight, experienceLevelWeight,
       repositoryActivityWeight, projectInsightsWeight >>

factorWeights ==
    << technicalSkillsWeight, technologyStackWeight, programmingLanguagesWeight,
       roleCompatibilityWeight, architecturalConceptsWeight, experienceLevelWeight,
       repositoryActivityWeight, projectInsightsWeight >>

totalWeight ==
    technicalSkillsWeight + technologyStackWeight + programmingLanguagesWeight
    + roleCompatibilityWeight + architecturalConceptsWeight + experienceLevelWeight
    + repositoryActivityWeight + projectInsightsWeight

factorScores(currentProfile, matchProfile) ==
    [ technicalSkills       |-> calculateJaccardIndex(
                                    currentProfile.keyStrengths,
                                    matchProfile.keyStrengths),
      technologyStack       |-> calculateJaccardIndex(
                                    currentProfile.identifiedTechnologies,
                                    matchProfile.identifiedTechnologies),
      programmingLanguages  |-> calculateLanguageStatsSimilarity(
                                    currentProfile.languageStats,
                                    matchProfile.languageStats),
      roleCompatibility     |-> calculateJaccardIndex(
                                    currentProfile.potentialRoles,
                                    matchProfile.potentialRoles),
      architecturalConcepts |-> calculateJaccardIndex(
                                    currentProfile.architecturalConcepts,
                                    matchProfile.architecturalConcepts),
      experienceLevel       |-> calculateExperienceLevelSimilarity(
                                    currentProfile.estimatedExperience,
                                    matchProfile.estimatedExperience),
      repositoryActivity    |-> calculateRepoActivitySimilarity(
                                    currentProfile.repoCount,
                                    matchProfile.repoCount),
      projectInsights       |-> calculateTextSimilarity(
                                    join(currentProfile.projectInsights, <<" ">>),
                                    join(matchProfile.projectInsights, <<" ">>)) ]

\* the weighted final score of the eight scores, and the scores
weightedResult(scores) ==
    [ finalScore |->
          clamp01(FDiv(WeightedSum(factorWeights,
                           << scores.technicalSkills, scores.technologyStack,
                              scores.programmingLanguages, scores.roleCompatibility,
                              scores.architecturalConcepts, scores.experienceLevel,
                              scores.repositoryActivity, scores.projectInsights >>),
                       totalWeight)),
      breakdown |-> scores ]

calculateDetailedMatchScore(currentProfile, matchProfile) ==
    weightedResult(factorScores(currentProfile, matchProfile))

\* Math.round(x * 100) of a fraction x >= 0
roundPercent(f) == (200 * f[1] + f[2]) \div (2 * f[2])

(***************************************************************************)
(* Stores                                                                  *)
(***************************************************************************)
NumUsers == 2

Users == 1..NumUsers

MaxRows == 1

\* the `technical` part of a profile document
Technical(status, strengths, techs, roles, concepts, langs, exp, repos, insights) ==
    [ analysisStatus         |-> status,
      keyStrengths           |-> strengths,
      identifiedTechnologies |-> techs,
      potentialRoles         |-> roles,
      architecturalConcepts  |-> concepts,
      languageStats          |-> langs,
      estimatedExperience    |-> exp,
      repoCount              |-> repos,
      projectInsights        |-> insights ]

EmptyStats == [l \in {} |-> 0]

NoTechnical == Technical("absent", <<>>, <<>>, <<>>, <<>>, EmptyStats, <<>>, 0, <<>>)

\* a saved_profiles row: row = FALSE when the user has none; hasTechnical = FALSE
\* when profile_data has no `technical` member
NoRow == [row |-> FALSE, hasTechnical |-> FALSE, technical |-> NoTechnical]

BareRow == [row |-> TRUE, hasTechnical |-> FALSE, technical |-> NoTechnical]

ProfileRow(t) == [row |-> TRUE, hasTechnical |-> TRUE, technical |-> t]

statsJsGo == ("JavaScript" :> 60) @@ ("Go" :> 40)

statsPython == ("Python" :> 100)

\* a full profile, as generateStructuredProfile builds it on success:
\* strengths React, Node; technologies Go, SQL; role CTO; concept REST;
\* experience "Senior"; insight "Built the API."
TechFull(status, repos) ==
    Technical(status,
              << <<"R","e","a","c","t">>, <<"N","o","d","e">> >>,
              << <<"G","o">>, <<"S","Q","L">> >>,
              << <<"C","T","O">> >>, << <<"R","E","S","T">> >>,
              statsJsGo, <<"S","e","n","i","o","r">>, repos,
              << <<"B","u","i","l","t"," ","t","h","e"," ","A","P","I",".">> >>)

\* the same profile as another generation spells it: case and blanks differ
TechFullRespelt(status, repos) ==
    Technical(status,
              << <<"n","o","d","e"," ">>, <<" ","r","e","a","c","t">> >>,
              << <<"s","q","l">>, <<"G","O">>, <<"g","o">> >>,
              << <<"c","t","o">> >>, << <<"r","e","s","t"," ">> >>,
              statsJsGo, <<"s","e","n","i","o","r"," ","e","n","g","i","n","e","e","r">>,
              repos, << <<"b","u","i","l","t">>, <<"a","p","i">> >>)

\* a profile that shares no label with TechFull: strength Sales, technology
\* Excel, role CEO, experience "Junior dev", insight "Sold a product"
TechOther(repos) ==
    Technical("success",
              << <<"S","a","l","e","s">> >>, << <<"E","x","c","e","l">> >>,
              << <<"C","E","O">> >>, <<>>,
              statsPython, <<"J","u","n","i","o","r"," ","d","e","v">>, repos,
              << <<"S","o","l","d"," ","a"," ","p","r","o","d","u","c","t">> >>)

\* the fallback generateStructuredProfile builds when the analysis fails
TechFailed ==
    Technical("failed", <<>>,
              << <<"J","a","v","a","S","c","r","i","p","t">>, <<"G","o">> >>,
              <<>>, <<>>, statsJsGo, <<"N","/","A">>, 6, <<>>)

ProfileRows ==
    { NoRow, BareRow,
      ProfileRow(TechFull("success", 6)),
      ProfileRow(TechFullRespelt("success", 6)),
      ProfileRow(TechFullRespelt("absent", 6)),
      ProfileRow(TechOther(4)),
      ProfileRow(TechOther(5)),
      ProfileRow(TechFailed) }

\* a profile that shares only the languages of TechFull
TechSameLanguages(repos) ==
    Technical("success",
              << <<"S","a","l","e","s">> >>, << <<"E","x","c","e","l">> >>,
              << <<"C","E","O">> >>, <<>>,
              statsJsGo, <<"J","u","n","i","o","r"," ","d","e","v">>, repos,
              << <<"S","o","l","d"," ","a"," ","p","r","o","d","u","c","t">> >>)

\* the documents of a large candidate pool, drawn cyclically
RankRows ==
    << ProfileRow(TechSameLanguages(4)),
       ProfileRow(TechOther(4)),
       ProfileRow(TechSameLanguages(8)),
       ProfileRow(TechFailed),
       ProfileRow(TechFullRespelt("success", 6)),
       ProfileRow(TechOther(5)) >>

\* a successful profile that has the labels of TechFull where the flag says so
\* and those of TechOther elsewhere; no concept, insight "Sold a product"
TechMixed(sameStrengths, sameTechnologies, sameRoles, sameLanguages, exp, repos) ==
    Technical("success",
              IF sameStrengths THEN << <<"R","e","a","c","t">>, <<"N","o","d","e">> >>
              ELSE << <<"S","a","l","e","s">> >>,
              IF sameTechnologies THEN << <<"G","o">>, <<"S","Q","L">> >>
              ELSE << <<"E","x","c","e","l">> >>,
              IF sameRoles THEN << <<"C","T","O">> >> ELSE << <<"C","E","O">> >>,
              <<>>,
              IF sameLanguages THEN statsJsGo ELSE statsPython,
              exp, repos,
              << <<"S","o","l","d"," ","a"," ","p","r","o","d","u","c","t">> >>)

\* the documents of the candidates of the end-to-end scenario: the caller's
\* own document and its respelling, documents that share some of its fields,
\* documents that share none, and a failed analysis
ScenarioRows ==
    { ProfileRow(TechFull("success", 6)),
      ProfileRow(TechFullRespelt("success", 6)),
      ProfileRow(TechMixed(TRUE, TRUE, FALSE, FALSE, <<"J","u","n","i","o","r"," ","d","e","v">>, 4)),
      ProfileRow(TechMixed(TRUE, TRUE, FALSE, TRUE, <<"S","e","n","i","o","r">>, 0)),
      ProfileRow(TechMixed(TRUE, FALSE, FALSE, TRUE, <<"S","e","n","i","o","r">>, 0)),
      ProfileRow(TechMixed(FALSE, FALSE, TRUE, FALSE, <<"J","u","n","i","o","r"," ","d","e","v">>, 5)),
      ProfileRow(TechSameLanguages(4)),
      ProfileRow(TechOther(4)),
      ProfileRow(TechOther(5)),
      ProfileRow(TechFailed) }

StoredDocuments == {r.technical : r \in ProfileRows \cup Range(RankRows) \cup ScenarioRows}

\* the composite score of every pair of stored documents, computed once
scoreResults ==
    [p \in StoredDocuments, q \in StoredDocuments |->
        calculateDetailedMatchScore(p, q)] @@ EmptyStats

scoreResultOf(currentUserProfile, matchTechnical) ==
    scoreResults[currentUserProfile, matchTechnical]

ConnectionStatuses == {"pending", "accepted"}

ConnectionRow(r, a, st) ==
    [id |-> (r - 1) * NumUsers + a, requester_id |-> r, addressee_id |-> a, status |-> st]

AllConnectionRows ==
    {ConnectionRow(r, a, st) : r \in Users, a \in Users, st \in ConnectionStatuses}

\* uq_connection_pair UNIQUE (requester_id, addressee_id), chk_no_self_connect
SchemaValid(rows) ==
    /\ \A c \in rows : c.requester_id # c.addressee_id
    /\ \A c, d \in rows :
          (c.requester_id = d.requester_id /\ c.addressee_id = d.addressee_id) => c = d

ConnectionTables ==
    {rows \in SUBSET AllConnectionRows : Cardinality(rows) <= MaxRows /\ SchemaValid(rows)}

(***************************************************************************)
(* databaseService.js                                                      *)
(***************************************************************************)
getUserProfile(userId) == savedProfiles[userId]

\* ... WHERE c.addressee_id = $1 AND c.status = 'pending'
getPendingRequestsForUser(userId) ==
    {c \in connections : c.addressee_id = userId /\ c.status = "pending"}

\* ... WHERE c.requester_id = $1 AND c.status = 'pending'
getSentRequestsByUser(userId) ==
    {c \in connections : c.requester_id = userId /\ c.status = "pending"}

\* SELECT u.* ... the users at the other end of an accepted row of userId
getActiveConnections(userId) ==
    {u \in DOMAIN savedProfiles :
        /\ u # userId
        /\ \E c \in connections :
              /\ c.status = "accepted"
              /\ (c.requester_id = userId \/ c.addressee_id = userId)
              /\ (c.requester_id = u \/ c.addressee_id = u)}

\* SELECT ... FROM users u JOIN saved_profiles sp ... WHERE u.id != $1
\*   AND sp.profile_data IS NOT NULL: the users the query returns
candidateUsers(currentUserId) ==
    {u \in DOMAIN savedProfiles : u # currentUserId /\ savedProfiles[u].row}

(***************************************************************************)
(* getSuggestions (suggestionController.js)                                *)
(***************************************************************************)
minScoreThreshold == 15

MaxSuggestions == 20

excellentThreshold == 70

highThreshold == 50

mediumThreshold == 30

Percent(k) == Frac(k, 100)

MaxPermuted == 3

RECURSIVE Ascending(_)
Ascending(S) ==
    IF S = {} THEN <<>>
    ELSE <<CHOOSE x \in S : \A y \in S : x <= y>>
         \o Ascending(S \ {CHOOSE x \in S : \A y \in S : x <= y})

Reverse(seq) == [i \in 1..Len(seq) |-> seq[Len(seq) + 1 - i]]

\* the orders in which a query without ORDER BY may return the rows of S: every
\* order of a small S, the two directions of the primary key of a large one
Orderings(S) ==
    IF Cardinality(S) <= MaxPermuted
    THEN {seq \in [1..Cardinality(S) -> S] :
             \A i, j \in DOMAIN seq : seq[i] = seq[j] => i = j}
    ELSE {Ascending(S), Reverse(Ascending(S))}

\* as existingInteractionUserIds, with the incoming pending requests forgotten
existingInteractionUserIdsNoIncoming(currentUserId) ==
    getActiveConnections(currentUserId)
    \cup {r.addressee_id : r \in getSentRequestsByUser(currentUserId)}

existingInteractionUserIds(currentUserId) ==
    getActiveConnections(currentUserId)
    \cup {r.addressee_id : r \in getSentRequestsByUser(currentUserId)}
    \cup {r.requester_id : r \in getPendingRequestsForUser(currentUserId)}

\* the negation of `!matchProfile || !matchProfile.technical ||
\* matchProfile.technical.analysisStatus === 'failed'`
hasUsableProfile(row) ==
    row.row /\ row.hasTechnical /\ row.technical.analysisStatus # "failed"

\* as meetsThreshold, with > for >=
meetsThresholdStrictly(finalScore) == FLess(Percent(minScoreThreshold), finalScore)

meetsThreshold(finalScore) == FLeq(Percent(minScoreThreshold), finalScore)

\* as matchStrengthOf, without the test for 'Excellent'
matchStrengthOfWithoutExcellent(finalScore) ==
    IF FLeq(Percent(highThreshold), finalScore) THEN "High"
    ELSE IF FLeq(Percent(mediumThreshold), finalScore) THEN "Medium"
    ELSE "Low"

\* as matchStrengthOf, with > for >=
matchStrengthOfStrictly(finalScore) ==
    IF FLess(Percent(excellentThreshold), finalScore) THEN "Excellent"
    ELSE IF FLess(Percent(highThreshold), finalScore) THEN "High"
    ELSE IF FLess(Percent(mediumThreshold), finalScore) THEN "Medium"
    ELSE "Low"

matchStrengthOf(finalScore) ==
    IF FLeq(Percent(excellentThreshold), finalScore) THEN "Excellent"
    ELSE IF FLeq(Percent(highThreshold), finalScore) THEN "High"
    ELSE IF FLeq(Percent(mediumThreshold), finalScore) THEN "Medium"
    ELSE "Low"

suggestionOf(userId, scoreResult) ==
    [ user_id       |-> userId,
      matchScore    |-> roundPercent(scoreResult.finalScore),
      matchStrength |-> matchStrengthOf(scoreResult.finalScore) ]

\* the candidates the loop scores, in pool order
RECURSIVE scoredCandidates(_, _)
scoredCandidates(pool, excluded) ==
    IF Len(pool) = 0 THEN <<>>
    ELSE IF pool[1] \in excluded \/ ~hasUsableProfile(savedProfiles[pool[1]])
         THEN scoredCandidates(Tail(pool), excluded)
         ELSE <<pool[1]>> \o scoredCandidates(Tail(pool), excluded)

\* `if (scoreResult.finalScore >= minScoreThreshold) suggestions.push(...)`
pushIfQualified(userId, scoreResult) ==
    IF meetsThreshold(scoreResult.finalScore)
    THEN <<suggestionOf(userId, scoreResult)>>
    ELSE <<>>

RECURSIVE qualifiedSuggestions(_, _)
qualifiedSuggestions(currentUserProfile, scored) ==
    IF Len(scored) = 0 THEN <<>>
    ELSE pushIfQualified(scored[1],
             scoreResultOf(currentUserProfile, savedProfiles[scored[1]].technical))
         \o qualifiedSuggestions(currentUserProfile, Tail(scored))

\* the comparator with its operands swapped: (a, b) => a.matchScore - b.matchScore
staysBeforeAscending(a, b) == a.matchScore - b.matchScore <= 0

\* the comparator (a, b) => b.matchScore - a.matchScore is negative or zero:
\* a stays before b
staysBefore(a, b) == b.matchScore - a.matchScore <= 0

insertAt(front, last, k) ==
    SubSeq(front, 1, k) \o <<last>> \o SubSeq(front, k + 1, Len(front))

\* `last` goes behind every element of the sorted `front` that stays before it
insertSorted(front, last) ==
    insertAt(front, last, Cardinality({i \in DOMAIN front : staysBefore(front[i], last)}))

\* Array.prototype.sort (stable), by insertion from the left
RECURSIVE sortSuggestions(_)
sortSuggestions(arr) ==
    IF Len(arr) <= 1 THEN arr
    ELSE insertSorted(sortSuggestions(SubSeq(arr, 1, Len(arr) - 1)), arr[Len(arr)])

RECURSIVE sumMatchScores(_)
sumMatchScores(arr) ==
    IF Len(arr) = 0 THEN 0 ELSE arr[1].matchScore + sumMatchScores(Tail(arr))

\* Math.round(n / d) for n >= 0, d > 0
roundDiv(n, d) == (2 * n + d) \div (2 * d)

NoStats == [totalCandidates |-> 0, qualifiedMatches |-> 0,
            averageMatchScore |-> 0, topSuggestions |-> 0]

NoResponse ==
    [handler |-> "none", user |-> 0, status |-> 0, suggestions |-> <<>>,
     stats |-> NoStats, message |-> "none"]

statsOf(pool, suggestions) ==
    [ totalCandidates   |-> Len(pool),
      qualifiedMatches  |-> Len(suggestions),
      averageMatchScore |-> IF Len(suggestions) > 0
                            THEN roundDiv(sumMatchScores(suggestions), Len(suggestions))
                            ELSE 0,
      topSuggestions    |-> Len(slice0(suggestions, MaxSuggestions)) ]

rankedResponse(currentUserId, pool, suggestions) ==
    [handler |-> "getSuggestions", user |-> currentUserId, status |-> 200,
     suggestions |-> slice0(suggestions, MaxSuggestions),
     stats |-> statsOf(pool, suggestions),
     message |-> IF Len(suggestions) = 0 THEN "noMatches" ELSE "found"]

\* the catch block: res.status(500).json({ error: "Failed to get suggestions" })
failureResponse(currentUserId) ==
    [handler |-> "getSuggestions", user |-> currentUserId, status |-> 500,
     suggestions |-> <<>>, stats |-> NoStats, message |-> "error"]

\* the loop over potentialMatches and what follows it
scoringResponse(currentUserId, currentUserProfileRow, pool, scored) ==
    IF ~currentUserProfileRow.hasTechnical /\ Len(scored) > 0
    THEN \* currentProfile.keyStrengths of undefined throws: the catch block
         failureResponse(currentUserId)
    ELSE rankedResponse(currentUserId, pool,
             sortSuggestions(qualifiedSuggestions(currentUserProfileRow.technical, scored)))

suggestionsResponse(currentUserId, pool) ==
    scoringResponse(currentUserId, getUserProfile(currentUserId), pool,
        scoredCandidates(pool, existingInteractionUserIds(currentUserId)))

\* the awaited store reads of the handler, in the order of the awaits
StoreReads ==
    <<"getUserProfile", "query", "getActiveConnections", "getSentRequestsByUser",
      "getPendingRequestsForUser">>

NoFailedRead == "none"

IdleSuggestionsRequest == [failedRead |-> NoFailedRead, responsesSent |-> 0]

\* as connectionReadsResponse, with a rejected connection read taken for an
\* empty list
connectionReadsSwallowed(currentUserId, pool, failedRead) ==
    suggestionsResponse(currentUserId, pool)

\* the handler from the first connection read on: a read that rejects throws
\* into the catch block
connectionReadsResponse(currentUserId, pool, failedRead) ==
    IF failedRead # NoFailedRead
    THEN failureResponse(currentUserId)
    ELSE suggestionsResponse(currentUserId, pool)

\* one request; failedRead is the store read that rejects, if any does. Every
\* path sends one response; reads behind a return or a throw are not made.
GetSuggestions(currentUserId) ==
    \E failedRead \in Range(StoreReads) \cup {NoFailedRead} :
        /\ suggestionsRequest' = [failedRead |-> failedRead, responsesSent |-> 1]
        /\ IF failedRead = StoreReads[1]
           THEN /\ response' = failureResponse(currentUserId)
                /\ potentialMatches' = <<>>
           ELSE IF ~getUserProfile(currentUserId).row
           THEN /\ failedRead = NoFailedRead
                /\ response' = [handler |-> "getSuggestions", user |-> currentUserId,
                                status |-> 200, suggestions |-> <<>>, stats |-> NoStats,
                                message |-> "saveProfileFirst"]
                /\ potentialMatches' = <<>>
           ELSE IF failedRead = StoreReads[2]
           THEN /\ response' = failureResponse(currentUserId)
                /\ potentialMatches' = <<>>
           ELSE \E pool \in Orderings(candidateUsers(currentUserId)) :
                /\ potentialMatches' = pool
                /\ response' = connectionReadsResponse(currentUserId, pool, failedRead)
        /\ UNCHANGED <<savedProfiles, connections, cvVars, connVars, primVars, genVars>>

(***************************************************************************)
(* The CV-to-job matcher: keyword query (cvController.js) and the LLM      *)
(* analysis of one job (services/aiRerankService.js)                       *)
(***************************************************************************)
stopwords ==
    { <<"a">>, <<"a","b","o","u","t">>, <<"a","n">>, <<"a","n","d">>,
      <<"a","r","e">>, <<"a","s">>, <<"a","t">>, <<"b","e">>, <<"b","y">>,
      <<"c","o","m">>, <<"f","o","r">>, <<"f","r","o","m">>, <<"h","o","w">>,
      <<"i">>, <<"i","n">>, <<"i","s">>, <<"i","t">>, <<"o","f">>,
      <<"o","n">>, <<"o","r">>, <<"t","h","a","t">>, <<"t","h","e">>,
      <<"t","h","i","s">>, <<"t","o">>, <<"w","a","s">>, <<"w","h","a","t">>,
      <<"w","h","e","n">>, <<"w","h","e","r","e">>, <<"w","h","o">>,
      <<"w","i","l","l">>, <<"w","i","t","h">>, <<"w","w","w">>,
      <<"e","t","c">>, <<"l","t","d">>, <<"p","l","c">>, <<"s","r","i">>,
      <<"l","a","n","k","a">>, <<"b","u","t">>, <<"i","f">>, <<"w","e">>,
      <<"o","u","r">>, <<"y","o","u">>, <<"y","o","u","r">> }

lowerAll(words) == [i \in DOMAIN words |-> toLowerCase(words[i])]

\* filter(word => word.length > 2), without the stop-word test
keepLongWords(words) == filterIn(words, {w \in Range(words) : Len(w) > 2})

\* filter(word => word.length > 2 && !stopwords.has(word))
keepCvKeywords(words) ==
    filterIn(words, {w \in Range(words) : Len(w) > 2 /\ w \notin stopwords})

createOrQueryKeepingStopwords(rawText) ==
    IF Len(rawText) = 0 \/ Len(trim(rawText)) = 0 THEN <<>>
    ELSE join(unique(keepLongWords(lowerAll(matchWords(rawText)))), <<" ", "|", " ">>)

createOrQueryFromCvText(rawText) ==
    IF Len(rawText) = 0 \/ Len(trim(rawText)) = 0 THEN <<>>
    ELSE join(unique(keepCvKeywords(lowerAll(matchWords(rawText)))), <<" ", "|", " ">>)

DigitChars == <<"0","1","2","3","4","5","6","7","8","9">>

DigitValue(c) == (CHOOSE i \in DOMAIN DigitChars : DigitChars[i] = c) - 1

\* the value of the longest prefix of decimal digits of s, after acc
RECURSIVE digitsPrefix(_, _)
digitsPrefix(s, acc) ==
    IF Len(s) = 0 \/ s[1] \notin Digits THEN acc
    ELSE digitsPrefix(Tail(s), 10 * acc + DigitValue(s[1]))

NaN == [isNaN |-> TRUE, value |-> 0]

unsignedInt(s) ==
    IF Len(s) = 0 \/ s[1] \notin Digits THEN NaN
    ELSE [isNaN |-> FALSE, value |-> digitsPrefix(s, 0)]

negated(n) == IF n.isNaN THEN NaN ELSE [isNaN |-> FALSE, value |-> 0 - n.value]

signedInt(s) ==
    IF Len(s) > 0 /\ s[1] = "-" THEN negated(unsignedInt(Tail(s)))
    ELSE IF Len(s) > 0 /\ s[1] = "+" THEN unsignedInt(Tail(s))
    ELSE unsignedInt(s)

\* parseInt(x, 10) of the string form of x
parseInt(s) == signedInt(trimStart(s))

fallbackAiScore == 50

fallbackReason == "AI analysis could not be completed for this job."

defaultReason == "Analysis complete."

fallbackResult == [aiScore |-> fallbackAiScore, reason |-> fallbackReason]

minAiScore == 1

maxAiScore == 100

\* the validation is skipped: a NaN score is carried as its value field
parsedUnchecked(aiScore, reason) ==
    [aiScore |-> aiScore.value,
     reason  |-> IF reason = "" THEN defaultReason ELSE reason]

\* lines 44-48: the range check, and `jsonResponse.reason || "Analysis complete."`
parsedResult(aiScore, reason) ==
    IF aiScore.isNaN \/ aiScore.value < minAiScore \/ aiScore.value > maxAiScore
    THEN fallbackResult
    ELSE [aiScore |-> aiScore.value,
          reason  |-> IF reason = "" THEN defaultReason ELSE reason]

\* what one completion of the LLM client is: a throw, or a message content
\* that JSON.parse rejects, or one it parses into ai_score and reason
GroqOutcome(threw, isJson, ai_score, reason) ==
    [threw |-> threw, isJson |-> isJson, ai_score |-> ai_score, reason |-> reason]

\* a completion that has not arrived
NoOutcome == GroqOutcome(FALSE, FALSE, <<>>, "")

GroqOutcomes ==
    { GroqOutcome(TRUE, FALSE, <<>>, ""),
      GroqOutcome(FALSE, FALSE, <<>>, ""),
      GroqOutcome(FALSE, TRUE, <<"8","5">>, "Core technologies align."),
      GroqOutcome(FALSE, TRUE, <<"2","0",".","5">>, ""),
      GroqOutcome(FALSE, TRUE, <<"1","5","0">>, "Perfect."),
      GroqOutcome(FALSE, TRUE, <<"h","i","g","h">>, "Good.") }

getAiRankUnchecked(outcome) ==
    IF outcome.threw \/ ~outcome.isJson THEN fallbackResult
    ELSE parsedUnchecked(parseInt(outcome.ai_score), outcome.reason)

\* getAiRank, given what the completion turns out to be: it never rejects
getAiRank(outcome) ==
    IF outcome.threw \/ ~outcome.isJson THEN fallbackResult
    ELSE parsedResult(parseInt(outcome.ai_score), outcome.reason)

(***************************************************************************)
(* The stores and the handler of the CV-to-job matcher                     *)
(***************************************************************************)
MaxJobs == 2

MaxPgScore == 2

\* user_cvs: at most one row per user; cv_text TEXT NOT NULL
NoCv == [row |-> FALSE, cv_text |-> <<>>]

CvRow(text) == [row |-> TRUE, cv_text |-> text]

\* no row; the empty text; blanks only; "It is on the www." (stop-words and
\* short words only); "Node and Go API"
CvRows ==
    { NoCv,
      CvRow(<<>>),
      CvRow(<<" ", "\t", " ">>),
      CvRow(<<"I","t"," ","i","s"," ","o","n"," ","t","h","e"," ","w","w","w",".">>),
      CvRow(<<"N","o","d","e"," ","a","n","d"," ","G","o"," ","A","P","I">>) }

\* jobs: the rows the scraper stored
JobRow(id) == [id |-> id, description_html |-> <<"j","o","b">>]

JobsTable == {JobRow(id) : id \in 1..MaxJobs}

\* ts_rank of a matching row, in units of the smallest rank
PgScores == 0..MaxPgScore

maxInitialMatches == 10

IsDescending(rows) == \A i, j \in DOMAIN rows : i < j => rows[i].score >= rows[j].score

HasDistinctIds(rows) == \A i, j \in DOMAIN rows : i # j => rows[i].id # rows[j].id

MatchRows(table) ==
    {[id |-> j.id, description_html |-> j.description_html, score |-> sc] :
        j \in table, sc \in PgScores}

\* what the stage-1 query can return: rows of the table that match, each once,
\* `ORDER BY score DESC LIMIT 10`
QueryResults(table) ==
    UNION { {rows \in [1..n -> MatchRows(table)] : IsDescending(rows) /\ HasDistinctIds(rows)} :
            n \in 0..Min(maxInitialMatches, Cardinality(table)) }

getUserCv(userId) == userCvs[userId]

\* `!userCv` is left out: a row with an empty cv_text only
lacksCvText(userCv) == userCv.row /\ Len(userCv.cv_text) = 0

\* `!userCv || !userCv.cv_text`
lacksCv(userCv) == ~userCv.row \/ Len(userCv.cv_text) = 0

NoUser == 0

Pending == [settled |-> FALSE, aiScore |-> 0, reason |-> ""]

Settled(result) == [settled |-> TRUE, aiScore |-> result.aiScore, reason |-> result.reason]

IdleRequest ==
    [pc |-> "idle", userId |-> NoUser, userCv |-> NoCv, cvLoaded |-> FALSE,
     orQueryString |-> <<>>, initialMatches |-> <<>>, analysisPromises |-> <<>>]

NoCvResponse == [status |-> 0, message |-> "", hasMatchedJobs |-> FALSE, matchedJobs |-> <<>>]

messageOnly(status, message) ==
    [status |-> status, message |-> message, hasMatchedJobs |-> FALSE, matchedJobs |-> <<>>]

withMatchedJobs(message, matchedJobs) ==
    [status |-> 200, message |-> message, hasMatchedJobs |-> TRUE, matchedJobs |-> matchedJobs]

pgWeight == 30

aiWeight == 70

\* as maxPgScoreOf, without the guard against a zero score
maxPgScoreUnguarded(initialMatches) == initialMatches[1].score

\* initialMatches[0].score > 0 ? initialMatches[0].score : 1
maxPgScoreOf(initialMatches) ==
    IF initialMatches[1].score > 0 THEN initialMatches[1].score ELSE 1

\* as blend, with the two weights exchanged
blendSwappedWeights(score, aiScore, maxPgScore) ==
    Frac(aiWeight * 100 * score + pgWeight * aiScore * maxPgScore, 100 * 100 * maxPgScore)

\* (job.score / maxPgScore) * pgWeight + (aiScore / 100) * aiWeight
blend(score, aiScore, maxPgScore) ==
    Frac(pgWeight * 100 * score + aiWeight * aiScore * maxPgScore, 100 * 100 * maxPgScore)

rerankedJob(job, aiResult, maxPgScore) ==
    [ id |-> job.id, description_html |-> job.description_html, score |-> job.score,
      aiAnalysis |-> [score |-> aiResult.aiScore, reason |-> aiResult.reason],
      finalScore |-> blend(job.score, aiResult.aiScore, maxPgScore) ]

\* the comparator with its operands exchanged: (a, b) => a.finalScore - b.finalScore
jobStaysBeforeAscending(a, b) == FLeq(a.finalScore, b.finalScore)

\* the comparator (a, b) => b.finalScore - a.finalScore leaves a before b
jobStaysBefore(a, b) == FLeq(b.finalScore, a.finalScore)

insertRanked(front, last) ==
    insertAt(front, last, Cardinality({i \in DOMAIN front : jobStaysBefore(front[i], last)}))

RECURSIVE sortRerankedJobs(_)
sortRerankedJobs(arr) ==
    IF Len(arr) <= 1 THEN arr
    ELSE insertRanked(sortRerankedJobs(SubSeq(arr, 1, Len(arr) - 1)), arr[Len(arr)])

\* the results are taken from the other end of the array
rerankedJobsCrossed(initialMatches, aiResults) ==
    [i \in DOMAIN initialMatches |->
        rerankedJob(initialMatches[i], aiResults[Len(aiResults) + 1 - i],
                    maxPgScoreOf(initialMatches))]

rerankedJobs(initialMatches, aiResults) ==
    [i \in DOMAIN initialMatches |->
        rerankedJob(initialMatches[i], aiResults[i], maxPgScoreOf(initialMatches))]

\* Promise.race in place of Promise.all
someSettled(analysisPromises) == \E i \in DOMAIN analysisPromises : analysisPromises[i].settled

\* Promise.all resolves once every promise has
allSettled(analysisPromises) == \A i \in DOMAIN analysisPromises : analysisPromises[i].settled

\* a request without an authenticated user
GetMatchesUnauthenticated ==
    /\ cvRequest.pc \in {"idle", "done"}
    /\ cvRequest' = [IdleRequest EXCEPT !.pc = "done"]
    /\ cvResponse' = messageOnly(401, "Authentication error: User ID not found in token.")
    /\ groqCalls' = <<>>
    /\ jobQueries' = 0
    /\ UNCHANGED <<userCvs, jobs>>

\* the handler up to `await db.getUserCv(userId)`
GetMatchesForUser(userId) ==
    /\ cvRequest.pc \in {"idle", "done"}
    /\ cvRequest' = [IdleRequest EXCEPT !.pc = "getUserCv", !.userId = userId]
    /\ cvResponse' = NoCvResponse
    /\ groqCalls' = <<>>
    /\ jobQueries' = 0
    /\ UNCHANGED <<userCvs, jobs>>

\* a rejected database call lands in the catch block
DbFails ==
    /\ cvRequest.pc \in {"getUserCv", "query"}
    /\ cvRequest' = [cvRequest EXCEPT !.pc = "done"]
    /\ cvResponse' = messageOnly(500, "An error occurred while matching jobs.")
    /\ UNCHANGED <<userCvs, jobs, groqCalls, jobQueries>>

\* from the row of getUserCv to `await db.query(searchQuery, [orQueryString])`
GetUserCvReturns ==
    /\ cvRequest.pc = "getUserCv"
    /\ IF lacksCv(getUserCv(cvRequest.userId))
       THEN /\ cvRequest' = [cvRequest EXCEPT !.pc = "done", !.cvLoaded = TRUE,
                                              !.userCv = getUserCv(cvRequest.userId)]
            /\ cvResponse' = messageOnly(404, "No CV found. Please upload a CV first.")
            /\ UNCHANGED jobQueries
       ELSE IF createOrQueryFromCvText(getUserCv(cvRequest.userId).cv_text) = <<>>
       THEN /\ cvRequest' = [cvRequest EXCEPT !.pc = "done", !.cvLoaded = TRUE,
                                              !.userCv = getUserCv(cvRequest.userId)]
            /\ cvResponse' = withMatchedJobs(
                   "Could not extract any relevant keywords from your CV.", <<>>)
            /\ UNCHANGED jobQueries
       ELSE /\ cvRequest' = [cvRequest EXCEPT
                   !.pc = "query", !.cvLoaded = TRUE,
                   !.userCv = getUserCv(cvRequest.userId),
                   !.orQueryString =
                       createOrQueryFromCvText(getUserCv(cvRequest.userId).cv_text)]
            /\ jobQueries' = jobQueries + 1
            /\ UNCHANGED cvResponse
    /\ UNCHANGED <<userCvs, jobs, groqCalls>>

\* from the rows of the query to `await Promise.all(analysisPromises)`: map
\* calls getAiRank for every row, and each call runs up to its own await of
\* the completion
QueryReturns ==
    /\ cvRequest.pc = "query"
    /\ \E rows \in QueryResults(jobs) :
          IF Len(rows) = 0
          THEN /\ cvRequest' = [cvRequest EXCEPT !.pc = "done"]
               /\ cvResponse' = withMatchedJobs("No initial text-based matches found.", <<>>)
               /\ UNCHANGED groqCalls
          ELSE /\ cvRequest' = [cvRequest EXCEPT
                      !.pc = "awaitAll", !.initialMatches = rows,
                      !.analysisPromises = [i \in DOMAIN rows |-> Pending]]
               /\ groqCalls' = [i \in DOMAIN rows |->
                                   [cvText |-> cvRequest.userCv.cv_text,
                                    jobDescription |-> rows[i].description_html,
                                    job |-> rows[i].id,
                                    completed |-> FALSE, outcome |-> NoOutcome]]
               /\ UNCHANGED cvResponse
    /\ UNCHANGED <<userCvs, jobs, jobQueries>>

\* the completion of the i-th call arrives, as a value or as a throw, and
\* getAiRank settles its promise
GroqCompletes(i) ==
    /\ cvRequest.pc = "awaitAll"
    /\ i \in DOMAIN cvRequest.analysisPromises
    /\ ~cvRequest.analysisPromises[i].settled
    /\ \E outcome \in GroqOutcomes :
          /\ groqCalls' = [groqCalls EXCEPT ![i].completed = TRUE, ![i].outcome = outcome]
          /\ cvRequest' = [cvRequest EXCEPT
                 !.analysisPromises[i] = Settled(getAiRank(outcome))]
    /\ UNCHANGED <<userCvs, jobs, jobQueries, cvResponse>>

\* Promise.all resolves: the blend, the sort and the response (the message
\* also carries the number of matchedJobs)
PromiseAllResolves ==
    /\ cvRequest.pc = "awaitAll"
    /\ allSettled(cvRequest.analysisPromises)
    /\ cvRequest' = [cvRequest EXCEPT !.pc = "done"]
    /\ cvResponse' = withMatchedJobs("Found and re-ranked the most relevant jobs.",
           sortRerankedJobs(rerankedJobs(cvRequest.initialMatches,
                                         cvRequest.analysisPromises)))
    /\ UNCHANGED <<userCvs, jobs, groqCalls, jobQueries>>

(***************************************************************************)
(* The connection workflow: connectionController.js over the connection    *)
(* methods of databaseService.js                                           *)
(***************************************************************************)
MaxUserId == 3

\* the users of the connection workflow
UserIds == 1..MaxUserId

MaxConnectionId == 2

\* the sendRequest calls that can be in flight at once
SendCalls == {"first", "second"}

IdleCall == [pc |-> "idle", requesterId |-> NoUser, addresseeId |-> NoUser]

\* the response a handler of the workflow sent last, and the number of store
\* calls the handler had made when it sent it
NoConnResponse == [handler |-> "none", status |-> 0, storeCalls |-> 0]

connResponseOf(handler, status, storeCalls) ==
    [handler |-> handler, status |-> status, storeCalls |-> storeCalls]

\* the id after the largest in the table
IdAfter(rows) ==
    IF rows = {} THEN 1
    ELSE 1 + CHOOSE m \in {c.id : c \in rows} : \A c \in rows : c.id <= m

\* SELECT * FROM connections WHERE (requester_id = $1 AND addressee_id = $2)
\*   OR (requester_id = $2 AND addressee_id = $1): the rows; rows[0] is truthy
\* when there is one
getConnectionStatus(userId1, userId2) ==
    {c \in connections :
        \/ c.requester_id = userId1 /\ c.addressee_id = userId2
        \/ c.requester_id = userId2 /\ c.addressee_id = userId1}

\* what makes the INSERT fail: chk_no_self_connect, uq_connection_pair
violatesConstraint(requesterId, addresseeId) ==
    \/ requesterId = addresseeId
    \/ \E c \in connections : c.requester_id = requesterId /\ c.addressee_id = addresseeId

\* INSERT INTO connections (requester_id, addressee_id, status)
\*   VALUES ($1, $2, 'pending'): the table afterwards
createConnectionRequest(requesterId, addresseeId) ==
    connections \cup {[id |-> nextConnectionId, requester_id |-> requesterId,
                       addressee_id |-> addresseeId, status |-> "pending"]}

\* the rows of UPDATE ... WHERE requester_id = $1 AND addressee_id = $2
\*   AND status = 'pending'
pendingRequestRows(requesterId, addresseeId) ==
    {c \in connections :
        c.requester_id = requesterId /\ c.addressee_id = addresseeId /\ c.status = "pending"}

\* UPDATE connections SET status = 'accepted' WHERE ...: the table afterwards
acceptConnectionRequest(requesterId, addresseeId) ==
    {IF c \in pendingRequestRows(requesterId, addresseeId)
     THEN [c EXCEPT !.status = "accepted"] ELSE c : c \in connections}

\* the rows of DELETE FROM connections WHERE id = $1
\*   AND (requester_id = $2 OR addressee_id = $2)
rowsToDelete(connectionId, currentUserId) ==
    {c \in connections :
        c.id = connectionId /\ (c.requester_id = currentUserId \/ c.addressee_id = currentUserId)}

\* DELETE ...: the table afterwards
declineOrCancelConnectionRequest(connectionId, currentUserId) ==
    connections \ rowsToDelete(connectionId, currentUserId)

\* sendRequest with the caller's own id: 400 before any store call
SendRequestToSelf(requesterId) ==
    /\ connResponse' = connResponseOf("sendRequest", 400, 0)
    /\ UNCHANGED <<connections, sendCalls, nextConnectionId>>

\* sendRequest up to `await databaseService.createConnectionRequest(...)`:
\* the validation, getConnectionStatus and the test of its result
SendRequestChecks(call, requesterId, addresseeId) ==
    /\ sendCalls[call].pc = "idle"
    /\ requesterId # addresseeId
    /\ nextConnectionId + Cardinality({k \in SendCalls : sendCalls[k].pc = "insert"})
          <= MaxConnectionId
    /\ IF getConnectionStatus(requesterId, addresseeId) # {}
       THEN /\ connResponse' = connResponseOf("sendRequest", 400, 1)
            /\ UNCHANGED sendCalls
       ELSE /\ sendCalls' = [sendCalls EXCEPT ![call] =
                   [pc |-> "insert", requesterId |-> requesterId, addresseeId |-> addresseeId]]
            /\ UNCHANGED connResponse
    /\ UNCHANGED <<connections, nextConnectionId>>

\* sendRequest from the INSERT on: 201 with the new row, or 400 from the
\* catch block on a unique violation
SendRequestInserts(call) ==
    /\ sendCalls[call].pc = "insert"
    /\ sendCalls' = [sendCalls EXCEPT ![call] = IdleCall]
    /\ nextConnectionId' = nextConnectionId + 1
    /\ IF violatesConstraint(sendCalls[call].requesterId, sendCalls[call].addresseeId)
       THEN /\ UNCHANGED connections
            /\ connResponse' = connResponseOf("sendRequest", 400, 2)
       ELSE /\ connections' = createConnectionRequest(sendCalls[call].requesterId,
                                                      sendCalls[call].addresseeId)
            /\ connResponse' = connResponseOf("sendRequest", 201, 2)

\* as AcceptRequest, with the UPDATE matching the pair in either direction
AcceptRequestEitherWay(addresseeId, requesterId) ==
    /\ connections' = {IF c \in getConnectionStatus(requesterId, addresseeId)
                       THEN [c EXCEPT !.status = "accepted"] ELSE c : c \in connections}
    /\ connResponse' = connResponseOf("acceptRequest",
           (IF getConnectionStatus(requesterId, addresseeId) = {} THEN 404 ELSE 200), 1)
    /\ UNCHANGED <<sendCalls, nextConnectionId>>

\* acceptRequest: the caller is the addressee, the body names the requester
AcceptRequest(addresseeId, requesterId) ==
    /\ connections' = acceptConnectionRequest(requesterId, addresseeId)
    /\ connResponse' = connResponseOf("acceptRequest",
           (IF pendingRequestRows(requesterId, addresseeId) = {} THEN 404 ELSE 200), 1)
    /\ UNCHANGED <<sendCalls, nextConnectionId>>

\* declineOrCancelRequest: the store method returns the boolean rowCount > 0,
\* which `deletedCount === 0` never equals, so the answer is always the 200
DeclineOrCancelRequest(currentUserId, connectionId) ==
    /\ connections' = declineOrCancelConnectionRequest(connectionId, currentUserId)
    /\ connResponse' = connResponseOf("declineOrCancelRequest", 200, 1)
    /\ UNCHANGED <<sendCalls, nextConnectionId>>

\* the ids as a request carries them: the decimal numeral of each user id,
\* "2abc", "abc", and the empty string, which stands for a missing id too
RawIds ==
    {<<DigitChars[u + 1]>> : u \in UserIds}
    \cup { <<"2","a","b","c">>, <<"a","b","c">>, <<>> }

\* `return res.status(400)` of a handler before its first store call
rejectsId(handler) ==
    /\ connResponse' = connResponseOf(handler, 400, 0)
    /\ UNCHANGED <<connections, sendCalls, nextConnectionId>>

\* sendRequest from the request body, up to the await of createConnectionRequest
sendRequest(call, requesterId, addresseeId) ==
    IF Len(addresseeId) = 0 \/ parseInt(addresseeId).isNaN
    THEN rejectsId("sendRequest")
    ELSE IF requesterId = parseInt(addresseeId).value
    THEN SendRequestToSelf(requesterId)
    ELSE SendRequestChecks(call, requesterId, parseInt(addresseeId).value)

\* acceptRequest from the request body
acceptRequest(addresseeId, requesterId) ==
    IF Len(requesterId) = 0 \/ parseInt(requesterId).isNaN
    THEN rejectsId("acceptRequest")
    ELSE AcceptRequest(addresseeId, parseInt(requesterId).value)

\* declineOrCancelRequest from the route parameter
declineOrCancelRequest(currentUserId, connectionId) ==
    IF parseInt(connectionId).isNaN
    THEN rejectsId("declineOrCancelRequest")
    ELSE DeclineOrCancelRequest(currentUserId, parseInt(connectionId).value)

\* SELECT * FROM users WHERE id = $1: whether there is a row
getUserById(userId) == userId \in UserIds

\* `!userProfileRow || !userProfileRow.profile_data` is false
hasProfileData(userId) == userId \in DOMAIN savedProfiles /\ savedProfiles[userId].row

\* getUserPublicProfile (profileController.js) from the route parameter
getUserPublicProfile(userId) ==
    /\ connResponse' =
          IF parseInt(userId).isNaN
          THEN connResponseOf("getUserPublicProfile", 400, 0)
          ELSE IF ~getUserById(parseInt(userId).value)
          THEN connResponseOf("getUserPublicProfile", 404, 1)
          ELSE IF ~hasProfileData(parseInt(userId).value)
          THEN connResponseOf("getUserPublicProfile", 404, 2)
          ELSE connResponseOf("getUserPublicProfile", 200, 2)
    /\ UNCHANGED <<connections, sendCalls, nextConnectionId>>

\* no sendRequest in flight, no response yet
ConnIdle ==
    /\ sendCalls = [k \in SendCalls |-> IdleCall]
    /\ nextConnectionId = IdAfter(connections)
    /\ connResponse = NoConnResponse

(***************************************************************************)
(* Profile generation: generateProfile, saveProfile and deleteProfile of   *)
(* profileController.js over profile_generations and saved_profiles        *)
(***************************************************************************)
\* a generateProfile call that is not running
NoGenerateCall == [pc |-> "idle", generationCount |-> 0, savedProfile |-> FALSE]

NoGenResponse ==
    [handler |-> "none", user |-> NoUser, status |-> 0, generationCount |-> 0,
     autoSaved |-> FALSE]

genResponseOf(handler, userId, status) ==
    [handler |-> handler, user |-> userId, status |-> status, generationCount |-> 0,
     autoSaved |-> FALSE]

\* no generation yet, no call running, no response yet
GenIdle ==
    /\ generationCounts = [u \in Users |-> 0]
    /\ generateCalls = [u \in Users |-> NoGenerateCall]
    /\ genResponse = NoGenResponse

\* `result.rows[0] ? result.rows[0].generation_count : 0`
getGenerationCount(userId) == generationCounts[userId]

\* ON CONFLICT (user_id) DO UPDATE SET generation_count = generation_count + 1
incrementGenerationCount(userId) ==
    [generationCounts EXCEPT ![userId] = generationCounts[userId] + 1]

\* SET generation_count = GREATEST(0, generation_count - 1) WHERE user_id = $1
\* AND generation_count > 0
decrementGenerationCount(userId) ==
    [generationCounts EXCEPT
        ![userId] = IF generationCounts[userId] > 0
                    THEN Max(0, generationCounts[userId] - 1)
                    ELSE generationCounts[userId]]

\* INSERT ... ON CONFLICT (user_id) DO UPDATE SET profile_data = EXCLUDED.profile_data
saveUserProfile(userId, profileData) ==
    [savedProfiles EXCEPT ![userId] = ProfileRow(profileData)]

\* DELETE FROM saved_profiles WHERE user_id = $1
deleteUserProfile(userId) == [savedProfiles EXCEPT ![userId] = NoRow]

\* `savedProfile ? 3 : 2`
effectiveLimit(savedProfile) == IF savedProfile THEN 3 ELSE 2

\* the limit is one lower whatever is saved
limitReachedEarly(generationCount, savedProfile) ==
    generationCount >= effectiveLimit(savedProfile) - 1

\* `generationCount >= effectiveLimit`
limitReached(generationCount, savedProfile) ==
    generationCount >= effectiveLimit(savedProfile)

\* `newCount === 3 || (!savedProfile && newCount === effectiveLimit)`
shouldAutoSave(newCount, savedProfile) ==
    newCount = 3 \/ (~savedProfile /\ newCount = effectiveLimit(savedProfile))

\* what generateStructuredProfile resolves to: the profile of an account whose
\* analysis succeeded, or the one it builds when the analysis failed
StructuredProfiles == {TechFull("success", 6), TechFailed}

\* what a client sends as profileData to saveProfile
ProfileData == {TechFull("success", 6), TechOther(4)}

\* generateProfile up to `await profileService.generateStructuredProfile`:
\* the two reads and the limit test (one call of a user at a time)
GenerateProfile(userId) ==
    /\ generateCalls[userId].pc = "idle"
    /\ IF limitReached(getGenerationCount(userId), getUserProfile(userId).row)
       THEN /\ genResponse' = genResponseOf("generateProfile", userId, 403)
            /\ UNCHANGED generateCalls
       ELSE /\ generateCalls' =
                [generateCalls EXCEPT
                    ![userId] = [pc |-> "generating",
                                 generationCount |-> getGenerationCount(userId),
                                 savedProfile |-> getUserProfile(userId).row]]
            /\ UNCHANGED genResponse
    /\ UNCHANGED <<savedProfiles, generationCounts>>

\* the rest of generateProfile: the profile arrives, the count goes up, the
\* profile is saved when shouldAutoSave says so; or the generation throws
GenerateProfileReturns(userId) ==
    /\ generateCalls[userId].pc = "generating"
    /\ generateCalls' = [generateCalls EXCEPT ![userId] = NoGenerateCall]
    /\ \/ /\ genResponse' = genResponseOf("generateProfile", userId, 500)
          /\ UNCHANGED <<savedProfiles, generationCounts>>
       \/ \E structuredProfile \in StructuredProfiles :
             /\ generationCounts' = incrementGenerationCount(userId)
             /\ savedProfiles' =
                    IF shouldAutoSave(generateCalls[userId].generationCount + 1,
                                      generateCalls[userId].savedProfile)
                    THEN saveUserProfile(userId, structuredProfile)
                    ELSE savedProfiles
             /\ genResponse' =
                    [handler |-> "generateProfile", user |-> userId, status |-> 200,
                     generationCount |-> generateCalls[userId].generationCount + 1,
                     autoSaved |-> shouldAutoSave(generateCalls[userId].generationCount + 1,
                                                  generateCalls[userId].savedProfile)]

\* saveProfile without profileData in the body
SaveProfileWithoutData(userId) ==
    /\ genResponse' = genResponseOf("saveProfile", userId, 400)
    /\ UNCHANGED <<savedProfiles, generationCounts, generateCalls>>

SaveProfile(userId, profileData) ==
    /\ savedProfiles' = saveUserProfile(userId, profileData)
    /\ genResponse' = genResponseOf("saveProfile", userId, 200)
    /\ UNCHANGED <<generationCounts, generateCalls>>

DeleteProfile(userId) ==
    /\ IF ~getUserProfile(userId).row
       THEN /\ genResponse' = genResponseOf("deleteProfile", userId, 404)
            /\ UNCHANGED <<savedProfiles, generationCounts>>
       ELSE /\ savedProfiles' = deleteUserProfile(userId)
            /\ generationCounts' = decrementGenerationCount(userId)
            /\ genResponse' = genResponseOf("deleteProfile", userId, 200)
    /\ UNCHANGED generateCalls

(***************************************************************************)
(* The profile similarity engine over every schema-valid store             *)
(***************************************************************************)
\* no CV stored, no job stored, no request to the CV matcher
CvIdle ==
    /\ userCvs = [u \in Users |-> NoCv]
    /\ jobs = {}
    /\ cvRequest = IdleRequest
    /\ groqCalls = <<>>
    /\ jobQueries = 0
    /\ cvResponse = NoCvResponse

vars ==
    <<savedProfiles, connections, potentialMatches, response, suggestionsRequest, cvVars,
      connVars, primVars, genVars>>

Init ==
    /\ savedProfiles \in [Users -> ProfileRows]
    /\ connections \in ConnectionTables
    /\ potentialMatches = <<>>
    /\ response = NoResponse
    /\ suggestionsRequest = IdleSuggestionsRequest
    /\ ConnIdle
    /\ PrimIdle
    /\ GenIdle
    /\ CvIdle

\* one request in a behaviour: getSuggestions writes to no store, so a later
\* request starts from the stores of the first and adds no state
Next ==
    /\ suggestionsRequest = IdleSuggestionsRequest
    /\ \E u \in Users : GetSuggestions(u)

Spec == Init /\ [][Next]_vars

(***************************************************************************)
(* Properties of the profile similarity engine                             *)
(***************************************************************************)
SuggestionsSent == response.handler = "getSuggestions" /\ response.status = 200

SuggestedUsers == {response.suggestions[i].user_id : i \in DOMAIN response.suggestions}

\* some row of the connections table links a and b with the given status,
\* requested by a
Linked(a, b, st) ==
    \E c \in connections :
        c.requester_id = a /\ c.addressee_id = b /\ c.status = st

\* the caller and u are connected, or one has a pending request to the other
InExclusionSet(caller, u) ==
    \/ Linked(caller, u, "accepted") \/ Linked(u, caller, "accepted")
    \/ Linked(caller, u, "pending")
    \/ Linked(u, caller, "pending")

CompositeScore(caller, u) ==
    scoreResultOf(savedProfiles[caller].technical, savedProfiles[u].technical).finalScore

\* finalScore >= 0.15, on the fraction
AtLeastFifteenPercent(f) == 15 * f[2] <= 100 * f[1]

\* C1: whatever the connections table holds, no user returned by getSuggestions
\* has an accepted connection with the caller, a pending request from the
\* caller, or a pending request to the caller.
C1_ExcludedNeverSuggested ==
    SuggestionsSent => \A u \in SuggestedUsers : ~InExclusionSet(response.user, u)

\* a caller's candidate that would qualify by its score is left out because of
\* a connection row
C1_Witness ==
    /\ SuggestionsSent
    /\ \E u \in DOMAIN savedProfiles \ {response.user} :
          /\ InExclusionSet(response.user, u)
          /\ savedProfiles[response.user].hasTechnical
          /\ hasUsableProfile(savedProfiles[u])
          /\ AtLeastFifteenPercent(CompositeScore(response.user, u))
          /\ u \notin SuggestedUsers

\* the candidates of the caller that are not excluded and whose analysis succeeded
SuccessfulCandidates(caller) ==
    {u \in DOMAIN savedProfiles \ {caller} :
        /\ savedProfiles[u].row /\ savedProfiles[u].hasTechnical
        /\ savedProfiles[u].technical.analysisStatus = "success"
        /\ ~InExclusionSet(caller, u)}

\* C2: every suggestion returned has a composite score of at least 0.15, and
\* a non-excluded candidate with a successfully analysed profile is among the
\* qualified suggestions exactly when its composite score is at least 0.15
\* (all qualified suggestions are returned while there are at most 20).
C2_ThresholdDecides ==
    (SuggestionsSent /\ response.message # "saveProfileFirst") =>
        /\ \A u \in SuggestedUsers :
              AtLeastFifteenPercent(CompositeScore(response.user, u))
        /\ response.stats.qualifiedMatches <= MaxSuggestions =>
              \A u \in SuccessfulCandidates(response.user) :
                  (u \in SuggestedUsers)
                      <=> AtLeastFifteenPercent(CompositeScore(response.user, u))

\* a candidate at exactly 0.15 is returned
C2_Witness ==
    /\ SuggestionsSent
    /\ \E u \in SuccessfulCandidates(response.user) :
          /\ savedProfiles[response.user].hasTechnical
          /\ CompositeScore(response.user, u) = <<3, 20>>
          /\ u \in SuggestedUsers

\* 0.25 a + 0.20 b + 0.15 c + 0.15 d + 0.10 e + 0.10 f + 0.03 g + 0.02 h = n/d,
\* cleared of denominators
IsFixedWeightedSum(f, b) ==
    LET l == LCM(LCM(LCM(b.technicalSkills[2], b.technologyStack[2]),
                     LCM(b.programmingLanguages[2], b.roleCompatibility[2])),
                 LCM(LCM(b.architecturalConcepts[2], b.experienceLevel[2]),
                     LCM(b.repositoryActivity[2], b.projectInsights[2])))
        part(w, x) == w * x[1] * (l \div x[2])
    IN  100 * l * f[1] =
            f[2] * ( part(25, b.technicalSkills) + part(20, b.technologyStack)
                   + part(15, b.programmingLanguages) + part(15, b.roleCompatibility)
                   + part(10, b.architecturalConcepts) + part(10, b.experienceLevel)
                   + part(3, b.repositoryActivity) + part(2, b.projectInsights) )

StoredTechnicals ==
    {savedProfiles[u].technical : u \in {v \in DOMAIN savedProfiles : savedProfiles[v].hasTechnical}}

\* C3: for every pair of stored profiles, finalScore is the sum of the eight
\* factor scores weighted 0.25, 0.20, 0.15, 0.15, 0.10, 0.10, 0.03, 0.02, these
\* weights add up to 1.0, and 0 <= finalScore <= 1.
C3_WeightedSumInUnitInterval ==
    /\ 25 + 20 + 15 + 15 + 10 + 10 + 3 + 2 = 100
    /\ \A p \in StoredTechnicals, q \in StoredTechnicals :
          LET r == scoreResultOf(p, q)
          IN  /\ IsFixedWeightedSum(r.finalScore, r.breakdown)
              /\ r.finalScore[2] > 0
              /\ 0 <= r.finalScore[1] /\ r.finalScore[1] <= r.finalScore[2]

\* a pair whose factors are neither all 0 nor all 1: 0.20/3 + 0.15 + 0.05 + 0.03
C3_Witness ==
    /\ SuggestionsSent
    /\ \E u \in SuggestedUsers :
          LET r == scoreResultOf(savedProfiles[response.user].technical,
                                 savedProfiles[u].technical)
          IN  /\ r.finalScore = <<89, 300>>
              /\ r.breakdown.technologyStack = <<1, 3>>
              /\ r.breakdown.experienceLevel = <<1, 2>>

\* C5: getSuggestions answers with no suggestion and the message asking to save
\* a profile, and scores nobody, when the caller has no stored profile or the
\* caller's stored profile has a failed AI analysis (and no store read fails).
C5_RejectsCallerWithoutAnalysedProfile ==
    ( /\ response.handler = "getSuggestions"
      /\ suggestionsRequest.failedRead = NoFailedRead
      /\ \/ ~savedProfiles[response.user].row
         \/ /\ savedProfiles[response.user].hasTechnical
            /\ savedProfiles[response.user].technical.analysisStatus = "failed" )
    => /\ response.status = 200
       /\ response.suggestions = <<>>
       /\ response.stats.qualifiedMatches = 0

\* C6: no user whose stored profile lacks analysisStatus = success is returned
\* by getSuggestions.
C6_OnlySuccessfulAnalysesSuggested ==
    SuggestionsSent =>
        \A u \in SuggestedUsers :
            /\ savedProfiles[u].hasTechnical
            /\ savedProfiles[u].technical.analysisStatus = "success"

RankExtra == 2

\* user 1 calls; user i > 1 holds document number ((i * step + offset) mod n) + 1
RankStore(size, step, offset) ==
    [u \in 1..(size + 1) |->
        IF u = 1 THEN ProfileRow(TechFull("success", 6))
        ELSE RankRows[((u * step + offset) % Len(RankRows)) + 1]]

RankTables ==
    { {}, {ConnectionRow(1, 2, "pending")}, {ConnectionRow(2, 1, "accepted")} }

InitRank ==
    /\ \E size \in (MaxSuggestions - 1)..(MaxSuggestions + RankExtra), step \in 0..(Len(RankRows) - 1),
          offset \in 0..(Len(RankRows) - 1) :
          savedProfiles = RankStore(size, step, offset)
    /\ connections \in RankTables
    /\ potentialMatches = <<>>
    /\ response = NoResponse
    /\ suggestionsRequest = IdleSuggestionsRequest
    /\ ConnIdle
    /\ PrimIdle
    /\ GenIdle
    /\ CvIdle

NextRank == GetSuggestions(1)

SpecRank == InitRank /\ [][NextRank]_vars

PoolPosition(u) == CHOOSE i \in DOMAIN potentialMatches : potentialMatches[i] = u

\* m = Math.round(100 * f)
IsRoundedPercent(m, f) ==
    2 * f[2] * m <= 200 * f[1] + f[2] /\ 200 * f[1] + f[2] < 2 * f[2] * (m + 1)

RoundedPercent(f) == CHOOSE m \in 0..100 : IsRoundedPercent(m, f)

\* the successfully analysed, non-excluded candidates at or above the threshold
\* that the response leaves out
LeftOut ==
    {u \in SuccessfulCandidates(response.user) \ SuggestedUsers :
        AtLeastFifteenPercent(CompositeScore(response.user, u))}

\* C4, as stated: at most 20 suggestions, none before one with a strictly
\* higher composite score, none left out with a strictly higher composite score
\* than one returned, equal composite scores in pool order.
C4_SortedByCompositeScore ==
    SuggestionsSent =>
        LET sug == response.suggestions
            score(i) == CompositeScore(response.user, sug[i].user_id)
        IN  /\ Len(sug) <= 20
            /\ \A i, j \in DOMAIN sug : i < j => ~FLess(score(i), score(j))
            /\ \A u \in LeftOut : \A i \in DOMAIN sug :
                  ~FLess(score(i), CompositeScore(response.user, u))
            /\ \A i, j \in DOMAIN sug :
                  (i < j /\ score(i) = score(j))
                      => PoolPosition(sug[i].user_id) < PoolPosition(sug[j].user_id)

\* C4, amended: the same with the composite score rounded to a whole
\* percentage (matchScore) in place of the composite score; among equal
\* matchScores the pool order decides, also for who is left out.
C4_SortedByMatchScore ==
    SuggestionsSent =>
        LET sug == response.suggestions
            me  == response.user
        IN  /\ Len(sug) <= 20
            /\ \A i \in DOMAIN sug :
                  IsRoundedPercent(sug[i].matchScore, CompositeScore(me, sug[i].user_id))
            /\ \A i, j \in DOMAIN sug : i < j => sug[i].matchScore >= sug[j].matchScore
            /\ \A i, j \in DOMAIN sug :
                  (i < j /\ sug[i].matchScore = sug[j].matchScore)
                      => PoolPosition(sug[i].user_id) < PoolPosition(sug[j].user_id)
            /\ \A u \in LeftOut : \A i \in DOMAIN sug :
                  LET m == RoundedPercent(CompositeScore(me, u))
                  IN  \/ m < sug[i].matchScore
                      \/ /\ m = sug[i].matchScore
                         /\ PoolPosition(sug[i].user_id) < PoolPosition(u)

\* more than 20 candidates qualify, two returned ones share a matchScore, and
\* a qualifying candidate is left out
C4_Witness ==
    /\ SuggestionsSent
    /\ Len(response.suggestions) = MaxSuggestions
    /\ response.stats.qualifiedMatches > MaxSuggestions
    /\ LeftOut # {}
    /\ \E i, j \in DOMAIN response.suggestions :
          /\ i < j
          /\ response.suggestions[i].matchScore = response.suggestions[j].matchScore
          /\ CompositeScore(response.user, response.suggestions[i].user_id)
                # CompositeScore(response.user, response.suggestions[j].user_id)
    /\ \E i, j \in DOMAIN response.suggestions :
          response.suggestions[i].matchScore > response.suggestions[j].matchScore

(***************************************************************************)
(* The end-to-end scenario: a caller and a pool of three other users       *)
(***************************************************************************)
ScenarioCaller == 1

ScenarioCandidates == {2, 3, 4}

\* no row, or one accepted connection between the caller and a candidate
ScenarioTables ==
    {{}} \cup {{ConnectionRow(ScenarioCaller, u, "accepted")} : u \in ScenarioCandidates}
         \cup {{ConnectionRow(u, ScenarioCaller, "accepted")} : u \in ScenarioCandidates}

InitScenario ==
    /\ \E pool \in [ScenarioCandidates -> ScenarioRows] :
          savedProfiles = [u \in {ScenarioCaller} \cup ScenarioCandidates |->
                              IF u = ScenarioCaller THEN ProfileRow(TechFull("success", 6))
                              ELSE pool[u]]
    /\ connections \in ScenarioTables
    /\ potentialMatches = <<>>
    /\ response = NoResponse
    /\ suggestionsRequest = IdleSuggestionsRequest
    /\ ConnIdle
    /\ PrimIdle
    /\ GenIdle
    /\ CvIdle

NextScenario ==
    /\ suggestionsRequest = IdleSuggestionsRequest
    /\ GetSuggestions(ScenarioCaller)

SpecScenario == InitScenario /\ [][NextScenario]_vars

(***************************************************************************)
(* The CV-to-job matcher over every row one user can hold in user_cvs (a   *)
(* request reads the row of its caller only)                               *)
(***************************************************************************)
InitCv ==
    /\ savedProfiles = [u \in Users |-> NoRow]
    /\ connections = {}
    /\ potentialMatches = <<>>
    /\ response = NoResponse
    /\ suggestionsRequest = IdleSuggestionsRequest
    /\ ConnIdle
    /\ PrimIdle
    /\ GenIdle
    /\ \E owner \in Users, cvRow \in CvRows :
          userCvs = [u \in Users |-> IF u = owner THEN cvRow ELSE NoCv]
    /\ jobs = JobsTable
    /\ cvRequest = IdleRequest
    /\ groqCalls = <<>>
    /\ jobQueries = 0
    /\ cvResponse = NoCvResponse

profileVars == <<savedProfiles, connections, potentialMatches, response, suggestionsRequest>>

NextCv ==
    \/ GetMatchesUnauthenticated /\ UNCHANGED <<profileVars, connVars, primVars, genVars>>
    \/ \E u \in Users : GetMatchesForUser(u) /\ UNCHANGED <<profileVars, connVars, primVars, genVars>>
    \/ DbFails /\ UNCHANGED <<profileVars, connVars, primVars, genVars>>
    \/ GetUserCvReturns /\ UNCHANGED <<profileVars, connVars, primVars, genVars>>
    \/ QueryReturns /\ UNCHANGED <<profileVars, connVars, primVars, genVars>>
    \/ \E i \in 1..maxInitialMatches : GroqCompletes(i) /\ UNCHANGED <<profileVars, connVars, primVars, genVars>>
    \/ PromiseAllResolves /\ UNCHANGED <<profileVars, connVars, primVars, genVars>>

SpecCv == InitCv /\ [][NextCv]_vars

(***************************************************************************)
(* Properties of the CV-to-job matcher                                     *)
(***************************************************************************)
\* the handler has answered a request whose CV lookup returned
CvAnswered == cvRequest.pc = "done" /\ cvRequest.cvLoaded

\* text[i..j] is a maximal run of word characters
IsWordAt(text, i, j) ==
    /\ i <= j
    /\ \A k \in i..j : IsWordChar(text[k])
    /\ i = 1 \/ ~IsWordChar(text[i - 1])
    /\ j = Len(text) \/ ~IsWordChar(text[j + 1])

\* some word of the text is longer than two characters and is no stop-word
HasKeyword(text) ==
    \E i, j \in 1..Len(text) :
        /\ IsWordAt(text, i, j)
        /\ j - i + 1 > 2
        /\ toLowerCase(SubSeq(text, i, j)) \notin stopwords

IsBlank(text) == \A k \in 1..Len(text) : IsSpace(text[k])

NoLlmCallNoJobQuery == groqCalls = <<>> /\ jobQueries = 0

C8_MissingCvIsNotFound ==
    /\ (cvRequest.userId \in Users /\ ~userCvs[cvRequest.userId].row)
       => NoLlmCallNoJobQuery
    /\ (CvAnswered /\ ~cvRequest.userCv.row)
       => /\ cvResponse.status = 404
          /\ cvResponse.message = "No CV found. Please upload a CV first."
          /\ ~cvResponse.hasMatchedJobs

\* a caller without a CV record has been answered
C8_Witness ==
    /\ CvAnswered /\ cvRequest.userId \in Users
    /\ ~userCvs[cvRequest.userId].row
    /\ cvResponse.status = 404
    /\ jobQueries = 0

\* the handler has answered with re-ranked jobs
Reranked == cvRequest.pc = "done" /\ Len(cvRequest.initialMatches) > 0

\* the completion threw, is not JSON, or carries no whole number from 1 to 100
CompletionFailed(outcome) ==
    \/ outcome.threw \/ ~outcome.isJson
    \/ parseInt(outcome.ai_score).isNaN
    \/ parseInt(outcome.ai_score).value \notin 1..100

\* the entry of matchedJobs for the i-th stage-1 candidate
MatchedJobOf(i) ==
    CHOOSE j \in Range(cvResponse.matchedJobs) : j.id = cvRequest.initialMatches[i].id

\* C9: once stage 1 has found candidates the request succeeds with every one
\* of them in matchedJobs; a candidate whose LLM call threw or returned no
\* valid JSON with a valid score carries score 50 and the fixed fallback
\* reason, and every other candidate carries the score of its own call and,
\* where that call gave one, its reason.
C9_FailedCallFallsBack ==
    Reranked =>
        /\ cvResponse.status = 200 /\ cvResponse.hasMatchedJobs
        /\ Len(cvResponse.matchedJobs) = Len(cvRequest.initialMatches)
        /\ \A i \in DOMAIN cvRequest.initialMatches :
              /\ \E j \in Range(cvResponse.matchedJobs) :
                    j.id = cvRequest.initialMatches[i].id
              /\ IF CompletionFailed(groqCalls[i].outcome)
                 THEN /\ MatchedJobOf(i).aiAnalysis.score = 50
                      /\ MatchedJobOf(i).aiAnalysis.reason =
                             "AI analysis could not be completed for this job."
                 ELSE /\ MatchedJobOf(i).aiAnalysis.score =
                             parseInt(groqCalls[i].outcome.ai_score).value
                      /\ groqCalls[i].outcome.reason # "" =>
                             MatchedJobOf(i).aiAnalysis.reason = groqCalls[i].outcome.reason

\* one call threw, another returned 85 with its reason, and both jobs are in
\* the answer
C9_Witness ==
    /\ Reranked /\ cvResponse.status = 200
    /\ \E i, k \in DOMAIN cvRequest.initialMatches :
          /\ groqCalls[i].outcome.threw
          /\ MatchedJobOf(i).aiAnalysis.score = 50
          /\ ~CompletionFailed(groqCalls[k].outcome)
          /\ MatchedJobOf(k).aiAnalysis.score = 85
          /\ MatchedJobOf(k).aiAnalysis.reason = "Core technologies align."

\* C10: stage 2 sends exactly one LLM call per stage-1 candidate, for that
\* candidate, and never another; every call is out before any completion is
\* taken; nothing is answered while a call is outstanding, and the answer
\* carries every candidate, whatever the order of completions and failures.
C10_FanOutFanIn ==
    /\ Len(groqCalls) = Len(cvRequest.initialMatches)
    /\ \A i \in DOMAIN groqCalls :
          /\ groqCalls[i].job = cvRequest.initialMatches[i].id
          /\ groqCalls[i].completed = cvRequest.analysisPromises[i].settled
    /\ cvRequest.pc = "awaitAll" => cvResponse = NoCvResponse
    /\ Reranked =>
          /\ \A i \in DOMAIN groqCalls : groqCalls[i].completed
          /\ Len(cvResponse.matchedJobs) = Len(cvRequest.initialMatches)

\* the handler waits: the second call has failed and the first is outstanding
C10_Witness ==
    /\ cvRequest.pc = "awaitAll"
    /\ Len(groqCalls) = 2
    /\ groqCalls[2].completed /\ groqCalls[2].outcome.threw
    /\ ~groqCalls[1].completed
    /\ cvResponse = NoCvResponse

\* the largest stage-1 score of the batch
MaxStageOneScore ==
    CHOOSE m \in {cvRequest.initialMatches[i].score : i \in DOMAIN cvRequest.initialMatches} :
        \A i \in DOMAIN cvRequest.initialMatches : cvRequest.initialMatches[i].score <= m

\* the divisor of the normalization: the largest score, or 1 when that is 0
Normalizer == IF MaxStageOneScore = 0 THEN 1 ELSE MaxStageOneScore

\* 10000 times (finalScore minus 0.7 * aiScore / 100), over the denominator of
\* finalScore: the share the stage-1 score has in the finalScore of job
LexicalShare(job) == job.finalScore[1] * 10000 - 70 * job.aiAnalysis.score * job.finalScore[2]

\* C11: the finalScore of every matched job is 0.3 times its stage-1 score
\* over the normalizer of the batch plus 0.7 times its AI score over 100, and
\* of two matched jobs with equal AI scores the one with the strictly higher
\* stage-1 score comes first in matchedJobs.
C11_BlendFavoursStageOne ==
    Reranked =>
        /\ \A i \in DOMAIN cvResponse.matchedJobs :
              cvResponse.matchedJobs[i].finalScore[1] * 1000 * Normalizer
              = cvResponse.matchedJobs[i].finalScore[2]
                * (300 * cvResponse.matchedJobs[i].score
                   + 7 * cvResponse.matchedJobs[i].aiAnalysis.score * Normalizer)
        /\ \A i, j \in DOMAIN cvResponse.matchedJobs :
              (/\ cvResponse.matchedJobs[i].aiAnalysis.score
                    = cvResponse.matchedJobs[j].aiAnalysis.score
               /\ cvResponse.matchedJobs[i].score > cvResponse.matchedJobs[j].score)
              => i < j

\* stage-1 scores [2, 1] with AI scores [85, 85]: finalScore 179/200 before
\* finalScore 149/200
C11_Witness ==
    /\ Reranked /\ Len(cvResponse.matchedJobs) = 2
    /\ cvResponse.matchedJobs[1].score = 2 /\ cvResponse.matchedJobs[2].score = 1
    /\ cvResponse.matchedJobs[1].aiAnalysis.score = 85
    /\ cvResponse.matchedJobs[2].aiAnalysis.score = 85
    /\ cvResponse.matchedJobs[1].finalScore = <<179, 200>>
    /\ cvResponse.matchedJobs[2].finalScore = <<149, 200>>

\* C12: for every batch of stage-1 scores, none negative, in the order of the
\* query, every finalScore is a number (its denominator is not zero) and the
\* share of the stage-1 score in it lies between 0 and 0.3, that is, the
\* normalized score lies in [0,1]; the candidate with the largest score has
\* the normalized score 1 when that score is positive, and every candidate
\* has the normalized score 0 when the largest score is 0.
C12_NormalizedByBatchMaximum ==
    Reranked =>
        \A i \in DOMAIN cvResponse.matchedJobs :
            /\ cvResponse.matchedJobs[i].finalScore[2] > 0
            /\ 0 <= LexicalShare(cvResponse.matchedJobs[i])
            /\ LexicalShare(cvResponse.matchedJobs[i])
                  <= 3000 * cvResponse.matchedJobs[i].finalScore[2]
            /\ LexicalShare(cvResponse.matchedJobs[i]) * Normalizer
                  = 3000 * cvResponse.matchedJobs[i].score
                    * cvResponse.matchedJobs[i].finalScore[2]
            /\ (MaxStageOneScore > 0 /\ cvResponse.matchedJobs[i].score = MaxStageOneScore)
               => LexicalShare(cvResponse.matchedJobs[i])
                      = 3000 * cvResponse.matchedJobs[i].finalScore[2]

\* a batch of two candidates whose stage-1 scores are both 0 has been answered
C12_Witness ==
    /\ Reranked /\ Len(cvRequest.initialMatches) = 2
    /\ MaxStageOneScore = 0
    /\ \A i \in DOMAIN cvResponse.matchedJobs :
          /\ cvResponse.matchedJobs[i].score = 0
          /\ LexicalShare(cvResponse.matchedJobs[i]) = 0

\* the stage-1 rows, as the set of what the query returned for each
StageOneRows ==
    {[id |-> cvRequest.initialMatches[i].id,
      description_html |-> cvRequest.initialMatches[i].description_html,
      score |-> cvRequest.initialMatches[i].score] : i \in DOMAIN cvRequest.initialMatches}

\* the stage-1 fields of an entry of matchedJobs
StageOneFieldsOf(job) ==
    [id |-> job.id, description_html |-> job.description_html, score |-> job.score]

IsStrictInteger(ai_score) ==
    /\ Len(ai_score) > 0
    /\ \A k \in DOMAIN ai_score : ai_score[k] \in Digits

\* the model's score, when it is a strict integer from 1 to 100
HasStrictScore(outcome) ==
    /\ ~outcome.threw /\ outcome.isJson
    /\ IsStrictInteger(outcome.ai_score)
    /\ parseInt(outcome.ai_score).value \in minAiScore..maxAiScore

\* C27: every aiAnalysis.score of matchedJobs is a whole number from 1 to 100;
\* it is the model's score when the model wrote a strict integer in that
\* range, and the fallback 50 for any other output of the model (a number
\* that is no integer, one out of range, none, or content that does not parse).
C27_ScoreIsStrictIntegerOrFallback ==
    Reranked =>
        \A i \in DOMAIN cvRequest.initialMatches :
            /\ MatchedJobOf(i).aiAnalysis.score \in minAiScore..maxAiScore
            /\ IF HasStrictScore(groqCalls[i].outcome)
               THEN MatchedJobOf(i).aiAnalysis.score =
                        parseInt(groqCalls[i].outcome.ai_score).value
               ELSE MatchedJobOf(i).aiAnalysis.score = fallbackAiScore

\* the result of the i-th call, as the response carries it
aiAnalysisOf(i) ==
    [score  |-> getAiRank(groqCalls[i].outcome).aiScore,
     reason |-> getAiRank(groqCalls[i].outcome).reason]

\* C28: the i-th LLM call is made for the description of the i-th stage-1
\* candidate; while the handler waits, a settled promise holds the result of
\* its own call, and in the response the score and reason of a job are the
\* result of the call made for that job, whatever the order in which the
\* calls complete or fail.
C28_ResultStaysWithItsJob ==
    /\ \A i \in DOMAIN groqCalls :
          /\ groqCalls[i].job = cvRequest.initialMatches[i].id
          /\ groqCalls[i].jobDescription = cvRequest.initialMatches[i].description_html
          /\ cvRequest.analysisPromises[i].settled =>
                cvRequest.analysisPromises[i] = Settled(getAiRank(groqCalls[i].outcome))
    /\ Reranked =>
          \A i \in DOMAIN cvRequest.initialMatches :
              MatchedJobOf(i).aiAnalysis = aiAnalysisOf(i)

\* two candidates with equal stage-1 scores: the call of the first failed,
\* the call of the second returned 85; the sort has put the second first and
\* each job carries the result of its own call
C28_Witness ==
    /\ Reranked /\ Len(cvRequest.initialMatches) = 2
    /\ groqCalls[1].outcome.threw
    /\ parseInt(groqCalls[2].outcome.ai_score).value = 85
    /\ cvResponse.matchedJobs[1].id = cvRequest.initialMatches[2].id
    /\ cvResponse.matchedJobs[1].aiAnalysis.score = 85
    /\ cvResponse.matchedJobs[2].id = cvRequest.initialMatches[1].id
    /\ cvResponse.matchedJobs[2].aiAnalysis.score = fallbackAiScore

(***************************************************************************)
(* The connection workflow from the empty connections table                *)
(***************************************************************************)
InitConn ==
    /\ savedProfiles = [u \in Users |-> NoRow]
    /\ connections = {}
    /\ potentialMatches = <<>>
    /\ response = NoResponse
    /\ suggestionsRequest = IdleSuggestionsRequest
    /\ CvIdle
    /\ ConnIdle
    /\ PrimIdle
    /\ GenIdle

nonWorkflowVars ==
    <<savedProfiles, potentialMatches, response, suggestionsRequest, cvVars, primVars, genVars>>

NextConn ==
    \/ \E u \in UserIds : SendRequestToSelf(u) /\ UNCHANGED nonWorkflowVars
    \/ \E k \in SendCalls, u, v \in UserIds :
          SendRequestChecks(k, u, v) /\ UNCHANGED nonWorkflowVars
    \/ \E k \in SendCalls : SendRequestInserts(k) /\ UNCHANGED nonWorkflowVars
    \/ \E u, v \in UserIds : AcceptRequest(u, v) /\ UNCHANGED nonWorkflowVars
    \/ \E u \in UserIds, id \in 1..MaxConnectionId :
          DeclineOrCancelRequest(u, id) /\ UNCHANGED nonWorkflowVars

SpecConn == InitConn /\ [][NextConn]_vars

\* C15: the connections table never holds a row from a user to that same
\* user, nor two rows for one unordered pair of users, whatever the calls of
\* sendRequest, acceptRequest and declineOrCancelRequest and their order.
C15_OneRowPerUnorderedPair ==
    /\ \A c \in connections : c.requester_id # c.addressee_id
    /\ \A c, d \in connections :
          {c.requester_id, c.addressee_id} = {d.requester_id, d.addressee_id} => c = d

\* the table has a pending row from requester to addressee
HasPendingRequest(requester, addressee) ==
    \E c \in connections :
        c.requester_id = requester /\ c.addressee_id = addressee /\ c.status = "pending"

\* C16: in every step, a row that appears is pending and is the row of a
\* sendRequest call of its requester, answered 201; a row whose status
\* changes goes from pending to accepted in an acceptRequest call of its
\* addressee naming its requester, answered 200; and an acceptRequest call
\* that finds no pending row from the named requester to the caller (the
\* caller is the requester or a third party, or the row is accepted already)
\* changes no row and is answered 404.
C16_PendingThenAcceptedByAddressee ==
    [][ /\ \A c \in connections' :
              (\A d \in connections : d.id # c.id) =>
                  /\ c.status = "pending"
                  /\ \E k \in SendCalls :
                        /\ sendCalls[k].pc = "insert"
                        /\ sendCalls[k].requesterId = c.requester_id
                        /\ sendCalls[k].addresseeId = c.addressee_id
                  /\ connResponse' = connResponseOf("sendRequest", 201, 2)
        /\ \A c \in connections, d \in connections' :
              (c.id = d.id /\ c # d) =>
                  /\ c.status = "pending"
                  /\ d = [c EXCEPT !.status = "accepted"]
                  /\ AcceptRequest(c.addressee_id, c.requester_id)
                  /\ connResponse' = connResponseOf("acceptRequest", 200, 1)
        /\ connResponse'.handler = "acceptRequest" =>
              \A u, v \in UserIds :
                  AcceptRequest(u, v) =>
                      IF HasPendingRequest(v, u)
                      THEN connResponse'.status = 200
                      ELSE connections' = connections /\ connResponse'.status = 404
      ]_vars

\* an acceptRequest call has just been answered 404 while the only row of the
\* table is a pending one, which is still pending: the call was not its
\* addressee's naming its requester
C16_Witness ==
    /\ connResponse.handler = "acceptRequest" /\ connResponse.status = 404
    /\ Cardinality(connections) = 1
    /\ \E u, v \in UserIds : HasPendingRequest(u, v)

\* the pending rows with this id that the caller is a party of
pendingRowsOfParty(connectionId, currentUserId) ==
    {c \in connections :
        /\ c.id = connectionId /\ c.status = "pending"
        /\ (c.requester_id = currentUserId \/ c.addressee_id = currentUserId)}

\* C29: a declineOrCancelRequest call deletes the row with the given id when
\* that row is pending and the caller is its requester or its addressee, and
\* is then answered 200; in every other case it deletes nothing and is
\* answered 404.
C29_DeclineDeletesPendingRowOfParty ==
    [][ \A u \in UserIds, id \in 1..MaxConnectionId :
          DeclineOrCancelRequest(u, id) =>
              IF pendingRowsOfParty(id, u) # {}
              THEN /\ connections' = connections \ pendingRowsOfParty(id, u)
                   /\ connResponse'.status = 200
              ELSE /\ connections' = connections
                   /\ connResponse'.status = 404
      ]_vars

(***************************************************************************)
(* The handlers that take an id from the request, from the raw request     *)
(***************************************************************************)
InitIds ==
    /\ savedProfiles = [u \in Users |->
                           IF u = 1 THEN ProfileRow(TechFull("success", 6)) ELSE NoRow]
    /\ connections = {}
    /\ potentialMatches = <<>>
    /\ response = NoResponse
    /\ suggestionsRequest = IdleSuggestionsRequest
    /\ CvIdle
    /\ ConnIdle
    /\ PrimIdle
    /\ GenIdle

idleVars == <<potentialMatches, response, suggestionsRequest, cvVars, primVars, genVars>>

NextIds ==
    \/ \E k \in SendCalls, u \in UserIds, id \in RawIds :
          sendRequest(k, u, id) /\ UNCHANGED <<savedProfiles, idleVars>>
    \/ \E k \in SendCalls : SendRequestInserts(k) /\ UNCHANGED <<savedProfiles, idleVars>>
    \/ \E u \in UserIds, id \in RawIds :
          acceptRequest(u, id) /\ UNCHANGED <<savedProfiles, idleVars>>
    \/ \E u \in UserIds, id \in RawIds :
          declineOrCancelRequest(u, id) /\ UNCHANGED <<savedProfiles, idleVars>>
    \/ \E id \in RawIds \cup {<<"9">>} :
          getUserPublicProfile(id) /\ UNCHANGED <<savedProfiles, idleVars>>

SpecIds == InitIds /\ [][NextIds]_vars

\* the string is not a decimal numeral
IsMalformedId(id) == Len(id) = 0 \/ \E i \in DOMAIN id : id[i] \notin Digits

\* C25: a sendRequest, acceptRequest, declineOrCancelRequest or
\* getUserPublicProfile call whose id is not a number is answered 400 before
\* any store call, and changes neither the table nor the calls in flight.
C25_MalformedIdRejected ==
    [][ \A id \in RawIds :
          ( /\ IsMalformedId(id)
            /\ \/ \E k \in SendCalls, u \in UserIds : sendRequest(k, u, id)
               \/ \E u \in UserIds : acceptRequest(u, id)
               \/ \E u \in UserIds : declineOrCancelRequest(u, id)
               \/ getUserPublicProfile(id) )
          => /\ connResponse'.status = 400
             /\ connResponse'.storeCalls = 0
             /\ UNCHANGED <<connections, sendCalls>>
      ]_vars

(***************************************************************************)
(* Profile generation from a fresh database                                *)
(***************************************************************************)
InitGen ==
    /\ savedProfiles = [u \in Users |-> NoRow]
    /\ connections = {}
    /\ potentialMatches = <<>>
    /\ response = NoResponse
    /\ suggestionsRequest = IdleSuggestionsRequest
    /\ ConnIdle
    /\ PrimIdle
    /\ CvIdle
    /\ GenIdle

genIdleVars ==
    <<connections, potentialMatches, response, suggestionsRequest, cvVars, connVars, primVars>>

NextGen ==
    \/ \E u \in Users : GenerateProfile(u) /\ UNCHANGED genIdleVars
    \/ \E u \in Users : GenerateProfileReturns(u) /\ UNCHANGED genIdleVars
    \/ \E u \in Users : SaveProfileWithoutData(u) /\ UNCHANGED genIdleVars
    \/ \E u \in Users, profileData \in ProfileData :
          SaveProfile(u, profileData) /\ UNCHANGED genIdleVars
    \/ \E u \in Users : DeleteProfile(u) /\ UNCHANGED genIdleVars

SpecGen == InitGen /\ [][NextGen]_vars

\* generateProfile would answer the user 403 'Generation limit reached'
AtGenerationLimit(u) == limitReached(getGenerationCount(u), getUserProfile(u).row)

\* C30: when a user who has reached the generation limit deletes their saved
\* profile with deleteProfile, the generateProfile call they make next is
\* allowed: it is not answered 403 'Generation limit reached'.
C30_DeleteGivesAttemptBack ==
    [][\A u \in Users :
          (AtGenerationLimit(u) /\ getUserProfile(u).row /\ DeleteProfile(u))
              => ~(AtGenerationLimit(u))']_vars

(***************************************************************************)
(* The similarity primitives over bounded arguments                        *)
(***************************************************************************)
InitPrim ==
    /\ savedProfiles = [u \in Users |-> NoRow]
    /\ connections = {}
    /\ potentialMatches = <<>>
    /\ response = NoResponse
    /\ suggestionsRequest = IdleSuggestionsRequest
    /\ CvIdle
    /\ ConnIdle
    /\ GenIdle
    /\ \/ \E arr1 \in LabelArrays, arr2 \in LabelArrays :
             primitiveCall = [fn |-> "calculateJaccardIndex", arg1 |-> arr1, arg2 |-> arr2]
       \/ \E stats1 \in StatsObjects, stats2 \in StatsObjects :
             primitiveCall =
                 [fn |-> "calculateLanguageStatsSimilarity", arg1 |-> stats1, arg2 |-> stats2]
       \/ \E exp1 \in Experiences, exp2 \in Experiences :
             primitiveCall =
                 [fn |-> "calculateExperienceLevelSimilarity", arg1 |-> exp1, arg2 |-> exp2]
       \/ \E repoCount1 \in RepoCounts, repoCount2 \in RepoCounts :
             primitiveCall =
                 [fn |-> "calculateRepoActivitySimilarity",
                  arg1 |-> repoCount1, arg2 |-> repoCount2]
    /\ primitiveResult = NotReturned

NextPrim ==
    \/ CallJaccardIndex /\ UNCHANGED <<profileVars, cvVars, connVars, genVars>>
    \/ CallLanguageStatsSimilarity /\ UNCHANGED <<profileVars, cvVars, connVars, genVars>>
    \/ CallExperienceLevelSimilarity /\ UNCHANGED <<profileVars, cvVars, connVars, genVars>>
    \/ CallRepoActivitySimilarity /\ UNCHANGED <<profileVars, cvVars, connVars, genVars>>

SpecPrim == InitPrim /\ [][NextPrim]_vars

(***************************************************************************)
(* Properties of the similarity primitives                                 *)
(***************************************************************************)
JaccardCalled ==
    primitiveCall.fn = "calculateJaccardIndex" /\ primitiveResult # NotReturned

\* the labels of an array, lower-cased and trimmed, as a set
NormalizedLabels(arr) == {trim(toLowerCase(arr[i])) : i \in DOMAIN arr}

\* result is |A intersected with B| / |A united with B|, or 0 when A or B is empty
IsIntersectionOverUnion(result, A, B) ==
    /\ result[2] > 0
    /\ IF A = {} \/ B = {}
       THEN result[1] = 0
       ELSE result[1] * Cardinality(A \cup B) = result[2] * Cardinality(A \cap B)
    /\ (A = B /\ A # {}) => result = <<1, 1>>
    /\ (A \cap B = {}) => result = <<0, 1>>

\* C17: calculateJaccardIndex returns the size of the intersection over the
\* size of the union of the two normalized label sets: 1 when both arrays
\* hold the same non-empty label set, 0 when the label sets are disjoint, and
\* 0 when either array is empty or missing.
C17_JaccardIsIntersectionOverUnion ==
    JaccardCalled =>
        /\ IsIntersectionOverUnion(primitiveResult, NormalizedLabels(primitiveCall.arg1),
                                   NormalizedLabels(primitiveCall.arg2))
        /\ (primitiveCall.arg1 = primitiveCall.arg2 /\ Len(primitiveCall.arg1) > 0)
              => primitiveResult = <<1, 1>>
        /\ (Len(primitiveCall.arg1) = 0 \/ Len(primitiveCall.arg2) = 0)
              => primitiveResult = <<0, 1>>

\* ["Go", "Rust"] against ["go ", " JS"]: one common label of three
C17_Witness ==
    /\ JaccardCalled
    /\ primitiveCall.arg1 = << <<"G","o">>, <<"R","u","s","t">> >>
    /\ primitiveCall.arg2 = << <<"g","o"," ">>, <<" ","J","S">> >>
    /\ primitiveResult = <<1, 3>>

UpperChar(c) ==
    IF \E i \in DOMAIN LowerChars : LowerChars[i] = c
    THEN UpperChars[CHOOSE i \in DOMAIN LowerChars : LowerChars[i] = c]
    ELSE c

\* every label in capitals between a blank and a tab
Respelt(arr) ==
    [i \in DOMAIN arr |-> <<" ">> \o [k \in DOMAIN arr[i] |-> UpperChar(arr[i][k])] \o <<"\t">>]

\* C18: calculateJaccardIndex gives the same result with its arguments
\* exchanged, and with the labels of an argument in another letter case,
\* with blanks around them, repeated, or in another order; ["Go"] against
\* ["go "] gives 1.
C18_JaccardSymmetricAndNormalizing ==
    JaccardCalled =>
        /\ primitiveResult = calculateJaccardIndex(primitiveCall.arg2, primitiveCall.arg1)
        /\ primitiveResult = calculateJaccardIndex(Respelt(primitiveCall.arg1), primitiveCall.arg2)
        /\ primitiveResult = calculateJaccardIndex(primitiveCall.arg1, Respelt(primitiveCall.arg2))
        /\ primitiveResult =
              calculateJaccardIndex(primitiveCall.arg1 \o primitiveCall.arg1, primitiveCall.arg2)
        /\ primitiveResult = calculateJaccardIndex(Reverse(primitiveCall.arg1), primitiveCall.arg2)
        /\ primitiveResult = calculateJaccardIndex(primitiveCall.arg1, Reverse(primitiveCall.arg2))
        /\ (primitiveCall.arg1 = << <<"G","o">> >> /\ primitiveCall.arg2 = << <<"g","o"," ">> >>)
              => primitiveResult = <<1, 1>>

\* ["Go"] against ["go "]
C18_Witness ==
    /\ JaccardCalled
    /\ primitiveCall.arg1 = << <<"G","o">> >>
    /\ primitiveCall.arg2 = << <<"g","o"," ">> >>
    /\ primitiveResult = <<1, 1>>

LanguageStatsCalled ==
    primitiveCall.fn = "calculateLanguageStatsSimilarity" /\ primitiveResult # NotReturned

\* C19: calculateLanguageStatsSimilarity returns 0 for two distributions that
\* have no language in common.
C19_DisjointLanguagesScoreZero ==
    (LanguageStatsCalled /\ DOMAIN primitiveCall.arg1 \cap DOMAIN primitiveCall.arg2 = {})
    => primitiveResult = <<0, 1>>

\* some language of the distribution has a percentage above 0
HasPositiveShare(stats) == \E l \in DOMAIN stats : stats[l] > 0

\* C20, as stated: calculateLanguageStatsSimilarity returns 1 whenever its two
\* arguments are the same distribution.
C20_IdenticalDistributionsScoreOne ==
    (LanguageStatsCalled /\ primitiveCall.arg1 = primitiveCall.arg2)
    => primitiveResult = <<1, 1>>

\* C20, amended: for two arguments that are the same distribution,
\* calculateLanguageStatsSimilarity returns 1 when some language of it has a
\* percentage above 0, and 0 when it has no language or only percentages of 0.
C20_IdenticalNonZeroDistributionsScoreOne ==
    (LanguageStatsCalled /\ primitiveCall.arg1 = primitiveCall.arg2)
    => IF HasPositiveShare(primitiveCall.arg1)
       THEN primitiveResult = <<1, 1>>
       ELSE primitiveResult = <<0, 1>>

\* {JavaScript: 60, Go: 40} against itself
C20_Witness ==
    /\ LanguageStatsCalled
    /\ primitiveCall.arg1 = ("JavaScript" :> 60) @@ ("Go" :> 40)
    /\ primitiveCall.arg2 = primitiveCall.arg1
    /\ primitiveResult = <<1, 1>>

RepoActivityCalled ==
    primitiveCall.fn = "calculateRepoActivitySimilarity" /\ primitiveResult # NotReturned

\* C21: calculateRepoActivitySimilarity returns the smaller count over the
\* larger for two positive counts, 1 when both counts are 0, and 0 when
\* exactly one of them is 0 or missing.
C21_RepoActivityRatio ==
    RepoActivityCalled =>
        IF primitiveCall.arg1 > 0 /\ primitiveCall.arg2 > 0
        THEN primitiveResult = Frac(Min(primitiveCall.arg1, primitiveCall.arg2),
                                    Max(primitiveCall.arg1, primitiveCall.arg2))
        ELSE IF primitiveCall.arg1 = 0 /\ primitiveCall.arg2 = 0
        THEN primitiveResult = One
        ELSE primitiveResult = Zero

ExperienceLevelCalled ==
    primitiveCall.fn = "calculateExperienceLevelSimilarity" /\ primitiveResult # NotReturned

\* the level of a lower-cased descriptor by the words it contains
LevelByWords(s) ==
    IF includes(s, <<"e","n","t","r","y">>) \/ includes(s, <<"j","u","n","i","o","r">>) THEN 1
    ELSE IF \/ includes(s, <<"m","i","d">>)
            \/ includes(s, <<"i","n","t","e","r","m","e","d","i","a","t","e">>) THEN 2
    ELSE IF includes(s, <<"s","e","n","i","o","r">>) THEN 3
    ELSE IF \/ includes(s, <<"l","e","a","d">>)
            \/ includes(s, <<"p","r","i","n","c","i","p","a","l">>)
            \/ includes(s, <<"s","t","a","f","f">>) THEN 4
    ELSE IF includes(s, <<"e","x","p","e","r","t">>) THEN 5
    ELSE 0

\* result is 1/2 when a level is 0, and 1 - |level_a - level_b| / 4 otherwise
IsLevelSimilarity(result, level_a, level_b) ==
    IF level_a = 0 \/ level_b = 0
    THEN result = <<1, 2>>
    ELSE /\ result[2] > 0
         /\ 4 * result[1] = (4 - Abs(level_a - level_b)) * result[2]

\* C22: calculateExperienceLevelSimilarity takes the level of each descriptor
\* from the words it contains (entry or junior 1, mid or intermediate 2,
\* senior 3, lead, principal or staff 4, expert 5, anything else 0), returns
\* 1/2 when a level is 0 and 1 - |level_a - level_b| / 4 otherwise; the
\* result is the same with the arguments exchanged and lies in [0,1].
C22_ExperienceLevelSimilarity ==
    ExperienceLevelCalled =>
        /\ IsLevelSimilarity(primitiveResult, LevelByWords(toLowerCase(primitiveCall.arg1)),
                             LevelByWords(toLowerCase(primitiveCall.arg2)))
        /\ primitiveResult =
              calculateExperienceLevelSimilarity(primitiveCall.arg2, primitiveCall.arg1)
        /\ FLeq(Zero, primitiveResult) /\ FLeq(primitiveResult, One)

\* "Junior" against "Expert": levels 1 and 5, result 0
C22_Witness ==
    /\ ExperienceLevelCalled
    /\ primitiveCall.arg1 = <<"J","u","n","i","o","r">>
    /\ primitiveCall.arg2 = <<"E","x","p","e","r","t">>
    /\ primitiveResult = Zero

(***************************************************************************)
(* Properties of the end-to-end scenario                                   *)
(***************************************************************************)
ScenarioAnswered == SuggestionsSent /\ response.message # "saveProfileFirst"

\* the documents of a and b have no key strength and no technology in common
SharesNoSkill(a, b) ==
    /\ NormalizedLabels(savedProfiles[a].technical.keyStrengths)
          \cap NormalizedLabels(savedProfiles[b].technical.keyStrengths) = {}
    /\ NormalizedLabels(savedProfiles[a].technical.identifiedTechnologies)
          \cap NormalizedLabels(savedProfiles[b].technical.identifiedTechnologies) = {}

\* the document of b has every key strength and every technology of a's
SharesAllSkills(a, b) ==
    /\ NormalizedLabels(savedProfiles[a].technical.keyStrengths)
          \subseteq NormalizedLabels(savedProfiles[b].technical.keyStrengths)
    /\ NormalizedLabels(savedProfiles[a].technical.identifiedTechnologies)
          \subseteq NormalizedLabels(savedProfiles[b].technical.identifiedTechnologies)

\* the suggestions of the response that are about user u
SuggestionsFor(u) ==
    {i \in DOMAIN response.suggestions : response.suggestions[i].user_id = u}

\* C23: in the scenario, a candidate that has none of the caller's key
\* strengths and none of its technologies has a composite score below 0.15
\* and is not among the suggestions.
C23_SharingNoneIsOmitted ==
    ScenarioAnswered =>
        \A u \in ScenarioCandidates :
            SharesNoSkill(response.user, u) =>
                /\ ~AtLeastFifteenPercent(CompositeScore(response.user, u))
                /\ u \notin SuggestedUsers

OtherFactorsMatch(breakdown) ==
    /\ breakdown.programmingLanguages = One
    /\ breakdown.roleCompatibility = One
    /\ breakdown.architecturalConcepts = One
    /\ breakdown.experienceLevel = One
    /\ breakdown.repositoryActivity = One
    /\ breakdown.projectInsights = One

BreakdownOf(caller, u) ==
    scoreResultOf(savedProfiles[caller].technical, savedProfiles[u].technical).breakdown

IsBandOf(band, f) ==
    band = IF 70 * f[2] <= 100 * f[1] THEN "Excellent"
           ELSE IF 50 * f[2] <= 100 * f[1] THEN "High"
           ELSE IF 30 * f[2] <= 100 * f[1] THEN "Medium"
           ELSE "Low"

\* C26: every suggestion returned carries the band of its composite score:
\* Excellent from 0.70, High from 0.50 to below 0.70, Medium from 0.30 to
\* below 0.50, Low below 0.30.
C26_BandOfCompositeScore ==
    ScenarioAnswered =>
        \A i \in DOMAIN response.suggestions :
            /\ response.suggestions[i].matchStrength \in {"Excellent", "High", "Medium", "Low"}
            /\ IsBandOf(response.suggestions[i].matchStrength,
                        CompositeScore(response.user, response.suggestions[i].user_id))

\* three suggestions with scores of exactly 0.70, 0.50 and 0.30 carry the
\* bands Excellent, High and Medium
C26_Witness ==
    /\ ScenarioAnswered
    /\ \E i, j, k \in DOMAIN response.suggestions :
          /\ CompositeScore(response.user, response.suggestions[i].user_id) = <<7, 10>>
          /\ response.suggestions[i].matchStrength = "Excellent"
          /\ CompositeScore(response.user, response.suggestions[j].user_id) = <<1, 2>>
          /\ response.suggestions[j].matchStrength = "High"
          /\ CompositeScore(response.user, response.suggestions[k].user_id) = <<3, 10>>
          /\ response.suggestions[k].matchStrength = "Medium"

====
